---------------------------- MODULE Spec2Model ----------------------------
(***************************************************************************)
(* Model of the meli mail pipeline.                                        *)
(*                                                                         *)
(* Part 1: the IMAP transport, melib/src/backends/imap/connection.rs.      *)
(*   SpecRead : ImapStream::read_lines and its callers, byte by byte, the  *)
(*              server's bytes split across reads in every possible way.   *)
(*   SpecLit  : ImapStream::send_literal, the bytes it writes.             *)
(*   SpecConn : ImapConnection, ImapStream::new_connection, send_command   *)
(*              and Drop: tags, reconnects, the login sequence.            *)
(*                                                                         *)
(* Part 2: the blocking line iterator of the same file.                    *)
(*   SpecBlocking : ImapBlockingConnection::next, read by read.            *)
(*                                                                         *)
(* Part 3: the Maildir backend, melib/src/mailbox/backends/maildir.rs.     *)
(*   SpecFlags : MaildirOp::fetch_flags / set_flag on one message file.    *)
(*   SpecWatch : the same with the watcher thread of MaildirType::watch.   *)
(*   SpecFetch : MaildirOp::as_bytes, fetch_headers and fetch_body.        *)
(*   SpecLoad  : MaildirType::multicore, the parsing thread and its        *)
(*               workers, for small listings and every interleaving.       *)
(*   SpecLoadLong : the same with one worker and long listings.            *)
(*   SpecFolders : MaildirType::new, the enumeration of the folders.       *)
(*   SpecThreads : the thread forest the listings draw.                    *)
(*   SpecSieve   : the sieve parser.                                       *)
(*   SpecBoundary : ContentType::make_boundary, step by step.              *)
(*   SpecSegment  : SegmentTree::new and get_max (src/types.rs).           *)
(*   SpecListing  : ThreadListing, its list, cursor and focus              *)
(*                  (src/components/mail/listing/thread.rs).               *)
(*                                                                         *)
(* Byte strings are sequences of one-character strings.  Offsets are the   *)
(* 0-based offsets of the Rust code; Slice(s, a, b) is s[a..b].            *)
(***************************************************************************)
EXTENDS Integers, Sequences, FiniteSets

VARIABLES
    \* ---- ImapStream::read_lines (SpecRead)
    ret,                \* the caller's buffer `ret`
    last_line_idx,      \* local `last_line_idx`
    termination_string, \* parameter `termination_string`
    rl_caller,          \* which function called read_lines
    rl_pc,              \* "reading", or how the loop was left
    srv_lines,          \* the lines the server sends for this exchange
    srv_pos,            \* how many of them the socket has delivered
    \* ---- ImapStream::send_literal (SpecLit)
    lit_data,           \* parameter `data`
    lit_sent,           \* the bytes written to the stream
    lit_pc,             \* "call", "Ok" or "Err"
    \* ---- ImapConnection and its ImapStream (SpecConn)
    stream,             \* ImapConnection::stream: "Ok" or "Err"
    capabilities,       \* ImapConnection::capabilities (0: the default set)
    cmd_id,             \* ImapStream::cmd_id of the stream in existence
    wire,               \* what happened on the current socket, in order
    dropped,            \* the ImapStream of the current socket was dropped
    pc,                 \* where the running ImapConnection operation stands
    op,                 \* the ImapConnection operation last called
    result,             \* what that operation returned
    was_offline,        \* stream was Err when the operation was called
    nc_calls,           \* new_connection calls made by the operation
    op_calls,           \* calls of the ImapStream method made by the operation
    n_ops,              \* operations called so far
    n_conn,             \* new_connection calls so far
    greeting,           \* which greeting the server sends
    nc_pos,             \* bytes of it the socket has delivered
    response,           \* new_connection's local `response`
    cap_flag,           \* new_connection's local `cap_flag`
    new_caps,           \* new_connection's local `capabilities`
    \* ---- ImapBlockingConnection (SpecBlocking)
    bl_result,          \* ImapBlockingConnection::result
    bl_prev_res_length, \* ImapBlockingConnection::prev_res_length
    bl_stream,          \* conn.stream: "Ok" or "Err"
    bl_pc,              \* "idle", "loop" (inside next) or "ret" (next returned)
    bl_item,            \* what next() returned last
    bl_srv,             \* the bytes the server sends on the stream
    bl_pos,             \* how many of them the socket has delivered
    bl_last,            \* outcome of the last stream.read of the running call
    bl_reads,           \* stream.read calls made by the running call
    bl_calls,           \* next() calls so far
    \* ---- MaildirOp, the envelope and the directory (SpecFlags, SpecWatch)
    md_path,            \* MaildirOp::path
    md_f,               \* set_flag's parameter `f`
    md_flags,           \* set_flag's local `flags`, after the toggle
    md_token,           \* the path held by the envelope's operation token
    md_files,           \* the message files that exist
    md_pc,              \* "call", "Ok", "Err", "panic" (set_flag), "fetched"
    md_fetched,         \* what fetch_flags returned for the token's MaildirOp
    \* ---- the watcher of MaildirType::watch (SpecWatch)
    wt_pc,              \* "off" (watch not called) or "recv" (thread in its loop)
    wt_queue,           \* the DebouncedEvents in the channel rx
    wt_closed,          \* every sender of the channel is gone
    wt_last,            \* what rx.recv() returned last: "none", "Ok", "Err"
    wt_errs,            \* rx.recv() calls that returned Err so far
    wt_delivered,       \* messages other programs delivered to new/ so far
    wt_sink,            \* what was sent to the RefreshEventConsumer, in order
    \* ---- MaildirOp reading its file (SpecFetch)
    ft_raw,             \* the bytes of the message file
    ft_slice,           \* MaildirOp::slice is Some
    ft_op,              \* the BackendOp method called last
    ft_result,          \* what it returned
    ft_calls,           \* calls so far
    \* ---- MaildirType::multicore (SpecLoad, SpecLoadLong)
    ld_cores,           \* parameter `cores`
    ld_files,           \* the listing of cur/: `files` (file i is the number i)
    ld_bad,             \* the files whose headers do not parse
    ld_pc,              \* "start", "scope", "join", "done" (the thread returned)
    ld_threads,         \* `threads`: per worker its chunk, progress and local_r
    ld_chan,            \* the AsyncStatus messages sent on tx, in order
    ld_joined,          \* how many of `threads` were joined
    ld_r,               \* `r`
    ld_result,          \* what the parsing thread returned
    \* ---- MaildirType::new (SpecFolders)
    fd_tree,            \* the directories under the root: parent and subdirectories
    fd_pc,              \* "call", "built" or "watched"
    fd_folders,         \* MaildirType::folders: per folder its directory and children
    fd_watched,         \* the directories whose cur/ and new/ watch() handed over
    \* ---- the thread forest (SpecThreads)
    th_envs,            \* the envelopes of the mailbox, by Message-ID
    th_in,              \* the Message-IDs inserted into the collection
    th_nodes,           \* the id table, by Message-ID
    th_built,           \* TRUE when th_forest was built from th_nodes
    th_forest,          \* Threads::thread_nodes(), the forest built last
    th_roots,           \* Threads::roots()
    \* ---- the sieve parser (SpecSieve)
    sv_kind,            \* the parser applied: "string", "number", "test" or "sieve"
    sv_input,           \* the text given to it
    sv_pc,              \* "call" or "done"
    sv_result,          \* what it returned
    \* ---- ContentType::make_boundary (SpecBoundary)
    mb_parts,           \* `parts`: the raw bytes of each part
    mb_pc,              \* "call", "sub" (in the for loop), "done" or "panic"
    mb_random,          \* `random_boundary`
    mb_counter,         \* `loop_counter`
    mb_flag,            \* `flag`
    mb_sub,             \* the 1-based index of `sub` in parts
    mb_generated,       \* how many times gen_boundary() was called
    mb_boundary,        \* the String returned
    \* ---- SegmentTree (SpecSegment)
    sg_array,           \* SegmentTree::array
    sg_tree,            \* SegmentTree::tree, indexed from 0
    sg_pc,              \* "call", "built" or "done"
    sg_left,            \* the `left` get_max was called with
    sg_right,           \* the `right` get_max was called with
    sg_max,             \* what get_max returned
    \* ---- ThreadListing (SpecListing)
    tl_debug,           \* the build checks debug_assert! and integer overflow
    tl_filter,          \* a listing filter is configured for the mailbox
    tl_items,           \* the nodes the last redraw_threads_list iterated over
    tl_built,           \* the envelope hashes of the rows it built, in order
    tl_order,           \* ThreadListing::order
    tl_length,          \* ThreadListing::length
    tl_cursor,          \* cursor_pos.2
    tl_new_cursor,      \* new_cursor_pos.2
    tl_differ,          \* cursor_pos and new_cursor_pos name different mailboxes
    tl_movement,        \* ThreadListing::movement
    tl_focus,           \* ThreadListing::focus
    tl_view,            \* ThreadListing::view is Some
    tl_dirty,           \* ThreadListing::dirty
    tl_redrawn,         \* redraw_threads_list was the last to write order and length
    tl_lookups,         \* the get_env_under_cursor calls of the last handler
    tl_pc               \* "idle", "run", or "panic" with the place of the panic

connVars == <<stream, capabilities, cmd_id, wire, dropped, pc, op, result, was_offline,
              nc_calls, op_calls, n_ops, n_conn, greeting, nc_pos, response, cap_flag, new_caps>>
readVars == <<ret, last_line_idx, termination_string, rl_caller, rl_pc, srv_lines, srv_pos>>
litVars == <<lit_data, lit_sent, lit_pc>>
blkVars == <<bl_result, bl_prev_res_length, bl_stream, bl_pc, bl_item, bl_srv, bl_pos,
             bl_last, bl_reads, bl_calls>>
imapVars == <<readVars, litVars, connVars>>
mdVars == <<md_path, md_f, md_flags, md_token, md_files, md_pc, md_fetched,
            wt_pc, wt_queue, wt_closed, wt_last, wt_errs, wt_delivered, wt_sink>>
ftVars == <<ft_raw, ft_slice, ft_op, ft_result, ft_calls>>
ldVars == <<ld_cores, ld_files, ld_bad, ld_pc, ld_threads, ld_chan, ld_joined, ld_r, ld_result>>
fdVars == <<fd_tree, fd_pc, fd_folders, fd_watched>>
thVars == <<th_envs, th_in, th_nodes, th_built, th_forest, th_roots>>
svVars == <<sv_kind, sv_input, sv_pc, sv_result>>
mbVars == <<mb_parts, mb_pc, mb_random, mb_counter, mb_flag, mb_sub, mb_generated,
            mb_boundary>>
sgVars == <<sg_array, sg_tree, sg_pc, sg_left, sg_right, sg_max>>
tlVars == <<tl_debug, tl_filter, tl_items, tl_built, tl_order, tl_length, tl_cursor,
            tl_new_cursor, tl_differ, tl_movement, tl_focus, tl_view, tl_dirty,
            tl_redrawn, tl_lookups, tl_pc>>
lastVars == <<mbVars, sgVars, tlVars>>
midVars == <<fdVars, thVars, svVars>>
laterVars == <<midVars, lastVars>>
restVars == <<blkVars, mdVars, ftVars, ldVars, laterVars>>
vars == <<imapVars, restVars>>

\* what the actions of one part leave alone
readOthers == <<litVars, connVars, restVars>>
litOthers == <<readVars, connVars, restVars>>
connOthers == <<readVars, litVars, restVars>>
earlyVars == <<imapVars, blkVars, mdVars, ftVars, ldVars>>
blkOthers == <<imapVars, mdVars, ftVars, ldVars, laterVars>>
mdOthers == <<imapVars, blkVars, ftVars, ldVars, laterVars>>
ftOthers == <<imapVars, blkVars, mdVars, ldVars, laterVars>>
ldOthers == <<imapVars, blkVars, mdVars, ftVars, laterVars>>
fdOthers == <<earlyVars, thVars, svVars, lastVars>>
thOthers == <<earlyVars, fdVars, svVars, lastVars>>
svOthers == <<earlyVars, fdVars, thVars, lastVars>>
mbOthers == <<earlyVars, midVars, sgVars, tlVars>>
sgOthers == <<earlyVars, midVars, mbVars, tlVars>>
tlOthers == <<earlyVars, midVars, mbVars, sgVars>>

---------------------------------------------------------------------------
(* Bounds of the model.                                                    *)

\* untagged lines sent before the line that ends an exchange
MaxLines == 2
\* length of the payload handed to send_literal
MaxLitLen == 4
\* ImapConnection operations called in one run
MaxOps == 3
\* new_connection calls in one run
MaxConnects == 2
\* bytes the server sends to the blocking iterator
MaxBlBytes == 5
\* next() calls on the blocking iterator in one run
MaxNextCalls == 3
\* reads of 0 bytes one next() call is followed through
MaxEmptyReads == 2
\* characters after ":2," in a message file's name
MaxLetters == 2
\* rx.recv() calls of the watcher thread that return Err
MaxRecvErrs == 2
\* messages other programs deliver while the watcher runs
MaxDeliveries == 1
\* bytes of a message file
MaxMsgLen == 5
\* fetch_headers / fetch_body calls on one MaildirOp
MaxFetches == 2
\* files in cur/ for a load followed through every interleaving
MaxFiles == 5
\* files in cur/ for a load with one worker
MaxLongFiles == 250
\* directories under the root of the mail store, the root included
MaxDirs == 3
\* entries of a References header
MaxRefs == 2
\* bytes between the quotes of a sieve string
MaxStrLen == 4
\* the integer in front of a sieve quantifier
MaxNumber == 12
\* qualifiers written in a header or address test
MaxQuals == 3
\* parts handed to make_boundary
MaxParts == 2
\* the passes make_boundary allows itself: `loop_counter`, 4096 in the
\* source (249), counted down from a smaller number here
LoopCounter == 3
\* elements of the array of a SegmentTree
MaxArrayLen == 5
\* the largest element of the array
MaxVal == 2
\* thread nodes of the mailbox a ThreadListing shows
MaxNodes == 3
\* the height of the area the list is drawn in
MaxPageRows == 2
\* the amount of a PageMovement
MaxAmount == 1

---------------------------------------------------------------------------
(* Byte strings.                                                           *)

\* s[a..b] of Rust: bytes a .. b-1
Slice(s, a, b) == SubSeq(s, a + 1, b)

\* s[a..]
SliceFrom(s, a) == SubSeq(s, a + 1, Len(s))

\* str::starts_with / slice::starts_with
StartsWith(s, p) == Len(s) >= Len(p) /\ SubSeq(s, 1, Len(p)) = p

\* slice::ends_with
EndsWith(s, p) == Len(s) >= Len(p) /\ SubSeq(s, Len(s) - Len(p) + 1, Len(s)) = p

\* the offsets at which p occurs in s
Occurrences(s, p) ==
    {i \in 0 .. (Len(s) - Len(p)) : \A k \in 1 .. Len(p) : s[i + k] = p[k]}

Min(S) == CHOOSE m \in S : \A n \in S : m <= n

Max(S) == CHOOSE m \in S : \A n \in S : m >= n

\* Option<usize> None
None == -1

\* str::find: the first occurrence, or None
Find(s, p) == LET occ == Occurrences(s, p) IN IF occ = {} THEN None ELSE Min(occ)

\* str::rfind: the last occurrence, or None
RFind(s, p) == LET occ == Occurrences(s, p) IN IF occ = {} THEN None ELSE Max(occ)

Digit(d) == <<"0", "1", "2", "3", "4", "5", "6", "7", "8", "9">>[d + 1]

RECURSIVE ToString(_)
\* usize::to_string / format!("{}", n): ASCII decimal, no leading zeros
ToString(n) == IF n < 10 THEN <<Digit(n)>> ELSE ToString(n \div 10) \o <<Digit(n % 10)>>

RECURSIVE Concat(_)
\* the lines of a script, joined
Concat(ss) == IF ss = <<>> THEN <<>> ELSE Head(ss) \o Concat(Tail(ss))

\* all sequences over S of length 0 .. n
SeqsUpTo(S, n) == UNION {[1 .. k -> S] : k \in 0 .. n}

CRLF == <<"\r", "\n">>

BYE_PREFIX == <<"*", " ", "B", "Y", "E">>

CONT_PREFIX == <<"+", " ">>

\* format!("M{} ", n)
Tag(n) == <<"M">> \o ToString(n) \o <<" ">>

---------------------------------------------------------------------------
(* ImapStream::read_lines, connection.rs 63-105.                           *)

\* the size of `buf`: one read delivers at most this many bytes
BufSize == 1024

\* ReadLinesChunk without the step back to the last complete line (76-81)
ReadLinesChunk_FirstLine(r0, lli0, term, chunk) ==
    LET r    == r0 \o chunk
        pos0 == RFind(SliceFrom(r, lli0), CRLF)
    IN  IF pos0 = None
        THEN [ret |-> r, lli |-> lli0, exit |-> "loop"]
        ELSE IF StartsWith(SliceFrom(r, lli0), BYE_PREFIX)
        THEN [ret |-> r, lli |-> lli0, exit |-> "err_bye"]
        ELSE IF pos0 + Len(CRLF) = Len(SliceFrom(r, lli0))
                /\ term # <<>> /\ StartsWith(SliceFrom(r, lli0), term)
        THEN [ret |-> Slice(r, 0, lli0), lli |-> lli0, exit |-> "ok_term"]
        ELSE IF pos0 + Len(CRLF) = Len(SliceFrom(r, lli0)) /\ term = <<>>
        THEN [ret |-> r, lli |-> lli0, exit |-> "ok_term"]
        ELSE [ret |-> r, lli |-> lli0 + pos0 + 2, exit |-> "loop"]

\* One pass of the loop body for a read of b > 0 bytes (lines 70-95): the
\* buffer, last_line_idx and how the loop goes on ("loop"), or is left
\* ("ok_term": the break of line 88 or 90, "err_bye": the return of line 74).
ReadLinesChunk(r0, lli0, term, chunk) ==
    LET r    == r0 \o chunk
        pos0 == RFind(SliceFrom(r, lli0), CRLF)
    IN  IF pos0 = None
        THEN [ret |-> r, lli |-> lli0, exit |-> "loop"]
        ELSE IF StartsWith(SliceFrom(r, lli0), BYE_PREFIX)
        THEN [ret |-> r, lli |-> lli0, exit |-> "err_bye"]
        ELSE
            LET prev == RFind(Slice(r, lli0, pos0 + lli0), CRLF)
                lli1 == IF prev # None THEN lli0 + prev + 2 ELSE lli0
                pos1 == IF prev # None THEN pos0 - (prev + 2) ELSE pos0
            IN  IF pos1 + Len(CRLF) = Len(SliceFrom(r, lli1))
                   /\ term # <<>> /\ StartsWith(SliceFrom(r, lli1), term)
                THEN [ret |-> Slice(r, 0, lli1), lli |-> lli1, exit |-> "ok_term"]
                ELSE IF pos1 + Len(CRLF) = Len(SliceFrom(r, lli1)) /\ term = <<>>
                THEN [ret |-> r, lli |-> lli1, exit |-> "ok_term"]
                ELSE [ret |-> r, lli |-> lli1 + pos1 + 2, exit |-> "loop"]

\* ImapStream::read_response (58-61): the tag of the last command sent
ReadResponseTerm(id) == Tag(id - 1)

\* ImapStream::wait_for_continuation_request (107-111)
ContinuationTerm == CONT_PREFIX

\* new_connection reads the answer to LOGIN with an empty termination string (234)
LoginTerm == <<>>

---------------------------------------------------------------------------
(* SpecRead: one call of read_lines against a server that sends srv_lines, *)
(* each followed by CRLF, and a socket that splits them across reads in    *)
(* any way.                                                                *)

LineExists == <<"*", " ", "1", " ", "E", "X", "I", "S", "T", "S">>

LineBye == <<"*", " ", "B", "Y", "E", " ", "b", "y", "e">>

LineCont == <<"+", " ", "g", "o">>

LineLoginOk == <<"M", "0", " ", "O", "K">>

\* the tagged completion line of command n
LineTagged(n) == Tag(n) \o <<"O", "K">>

\* a line whose tag only starts with the digits of n
LineLongerTag(n) == <<"M">> \o ToString(n) \o <<"7", " ", "O", "K">>

\* the values of cmd_id read_response is called with
ReadCmdIds == {1, 2, 11}

\* the callers of read_lines with the termination string each passes
Callers ==
    {[caller |-> "read_response", cmd_id |-> c, term |-> ReadResponseTerm(c),
      last |-> LineTagged(c - 1), other |-> LineLongerTag(c - 1)] : c \in ReadCmdIds}
    \cup {[caller |-> "wait_for_continuation_request", cmd_id |-> 1, term |-> ContinuationTerm,
            last |-> LineCont, other |-> LineTagged(0)]}
    \cup {[caller |-> "new_connection", cmd_id |-> 1, term |-> LoginTerm,
            last |-> LineLoginOk, other |-> LineTagged(7)]}

\* what the server may send to caller c: untagged lines, then the line that
\* ends the exchange or a BYE
Scripts(c) ==
    {pre \o <<fin>> : pre \in SeqsUpTo({LineExists, c.other}, MaxLines), fin \in {c.last, LineBye}}

\* the server's bytes
SrvOut == Concat([i \in 1 .. Len(srv_lines) |-> srv_lines[i] \o CRLF])

\* the bytes the socket has delivered
Received == Slice(SrvOut, 0, srv_pos)

ReadIdle ==
    /\ ret = <<>> /\ last_line_idx = 0 /\ termination_string = <<>>
    /\ rl_caller = "none" /\ rl_pc = "idle" /\ srv_lines = <<>> /\ srv_pos = 0

LitIdle == lit_data = <<>> /\ lit_sent = <<>> /\ lit_pc = "idle"

\* the result of an operation: Ok(val) or Err(err)
NoResult == [status |-> "none", val |-> 0, err |-> ""]

\* ImapConnection::new_connection (243-257): offline, the default capabilities
ConnIdle ==
    /\ stream = "Err" /\ capabilities = 0 /\ cmd_id = 0 /\ wire = <<>> /\ dropped = FALSE
    /\ pc = "idle" /\ op = "none" /\ result = NoResult /\ was_offline = FALSE
    /\ nc_calls = 0 /\ op_calls = 0 /\ n_ops = 0 /\ n_conn = 0
    /\ greeting = "none" /\ nc_pos = 0 /\ response = <<>> /\ cap_flag = FALSE /\ new_caps = 0

\* Option<Vec<u8>>: None, or Some(val)
NoItem == [some |-> FALSE, val |-> <<>>]

\* no ImapBlockingConnection exists
BlkIdle ==
    /\ bl_result = <<>> /\ bl_prev_res_length = 0 /\ bl_stream = "Err" /\ bl_pc = "idle"
    /\ bl_item = NoItem /\ bl_srv = <<>> /\ bl_pos = 0 /\ bl_last = "none"
    /\ bl_reads = 0 /\ bl_calls = 0

\* fetch_flags' result: the flags, or the panic of line 112
NoFlags == [panic |-> FALSE, flag |-> {}]

\* no MaildirOp exists, watch was not called
MdIdle ==
    /\ md_path = <<>> /\ md_f = {} /\ md_flags = {} /\ md_token = <<>> /\ md_files = {}
    /\ md_pc = "idle" /\ md_fetched = NoFlags
    /\ wt_pc = "off" /\ wt_queue = <<>> /\ wt_closed = FALSE /\ wt_last = "none"
    /\ wt_errs = 0 /\ wt_delivered = 0 /\ wt_sink = <<>>

\* no MaildirOp has read a file
FtIdle ==
    /\ ft_raw = <<>> /\ ft_slice = FALSE /\ ft_op = "none" /\ ft_result = NoResult
    /\ ft_calls = 0

\* multicore was not called
LdIdle ==
    /\ ld_cores = 0 /\ ld_files = <<>> /\ ld_bad = {} /\ ld_pc = "idle" /\ ld_threads = <<>>
    /\ ld_chan = <<>> /\ ld_joined = 0 /\ ld_r = <<>> /\ ld_result = NoResult

\* MaildirType::new was not called
FdIdle == fd_tree = <<>> /\ fd_pc = "idle" /\ fd_folders = <<>> /\ fd_watched = {}

ImapIdle == ReadIdle /\ LitIdle /\ ConnIdle

\* no thread forest was built
ThIdle ==
    /\ th_envs = <<>> /\ th_in = {} /\ th_nodes = <<>>
    /\ th_built = FALSE /\ th_forest = <<>> /\ th_roots = <<>>

\* no sieve parser was called
SvIdle == sv_kind = "none" /\ sv_input = <<>> /\ sv_pc = "idle" /\ sv_result = <<>>

\* make_boundary was not called
MbIdle ==
    /\ mb_parts = <<>> /\ mb_pc = "idle" /\ mb_random = <<>> /\ mb_counter = 0
    /\ mb_flag = FALSE /\ mb_sub = 0 /\ mb_generated = 0 /\ mb_boundary = <<>>

\* nothing of parts 4 to 6 has run
MidIdle == FdIdle /\ ThIdle /\ SvIdle

\* no SegmentTree was built
SgIdle ==
    /\ sg_array = <<>> /\ sg_tree = <<>> /\ sg_pc = "idle"
    /\ sg_left = 0 /\ sg_right = 0 /\ sg_max = 0

\* no ThreadListing exists
TlIdle ==
    /\ tl_debug = FALSE /\ tl_filter = FALSE /\ tl_items = <<>> /\ tl_built = <<>>
    /\ tl_order = {} /\ tl_length = 0 /\ tl_cursor = 0 /\ tl_new_cursor = 0
    /\ tl_differ = FALSE /\ tl_movement = <<>> /\ tl_focus = "None" /\ tl_view = FALSE
    /\ tl_dirty = FALSE /\ tl_redrawn = FALSE /\ tl_lookups = {} /\ tl_pc = "idle"

\* nothing of part 7 and later has run
LastIdle == MbIdle /\ SgIdle /\ TlIdle

\* nothing of part 4 and later has run
LaterIdle == MidIdle /\ LastIdle

RestIdle == BlkIdle /\ MdIdle /\ FtIdle /\ LdIdle /\ LaterIdle

\* nothing of parts 1 to 3 has run
EarlyIdle == ImapIdle /\ BlkIdle /\ MdIdle /\ FtIdle /\ LdIdle

InitRead ==
    /\ \E c \in Callers :
          /\ rl_caller = c.caller
          /\ termination_string = c.term
          /\ srv_lines \in Scripts(c)
    /\ ret \in {<<>>, LineExists}
    /\ last_line_idx = 0
    /\ rl_pc = "call"
    /\ srv_pos = 0
    /\ LitIdle
    /\ ConnIdle
    /\ RestIdle

\* lines 64-66: ret.clear(), last_line_idx = 0
ReadLinesCall ==
    /\ rl_pc = "call"
    /\ ret' = <<>>
    /\ last_line_idx' = 0
    /\ rl_pc' = "reading"
    /\ UNCHANGED <<termination_string, rl_caller, srv_lines, srv_pos>>
    /\ UNCHANGED readOthers

\* Ok(b), b > 0 (lines 70-95)
ReadChunk ==
    /\ rl_pc = "reading"
    /\ \E b \in 1 .. Min({BufSize, Len(SrvOut) - srv_pos}) :
          LET step == ReadLinesChunk(ret, last_line_idx, termination_string,
                                     Slice(SrvOut, srv_pos, srv_pos + b))
          IN  /\ ret' = step.ret
              /\ last_line_idx' = step.lli
              /\ rl_pc' = IF step.exit = "loop" THEN "reading" ELSE step.exit
              /\ srv_pos' = srv_pos + b
    /\ UNCHANGED <<termination_string, rl_caller, srv_lines>>
    /\ UNCHANGED readOthers

\* Ok(0) => break (line 69), then Ok(()) (line 104)
ReadEof ==
    /\ rl_pc = "reading"
    /\ rl_pc' = "ok_eof"
    /\ UNCHANGED <<ret, last_line_idx, termination_string, rl_caller, srv_lines, srv_pos>>
    /\ UNCHANGED readOthers

\* Err(WouldBlock) => continue (lines 96-98)
ReadWouldBlock ==
    /\ rl_pc = "reading"
    /\ UNCHANGED readVars
    /\ UNCHANGED readOthers

\* any other Err(e) => return Err (lines 99-101)
ReadError ==
    /\ rl_pc = "reading"
    /\ rl_pc' = "err_io"
    /\ UNCHANGED <<ret, last_line_idx, termination_string, rl_caller, srv_lines, srv_pos>>
    /\ UNCHANGED readOthers

NextRead == ReadLinesCall \/ ReadChunk \/ ReadEof \/ ReadWouldBlock \/ ReadError

SpecRead == InitRead /\ [][NextRead]_vars

\* the offset in SrvOut just past line i
LineEnd(i) == Len(Concat([k \in 1 .. i |-> srv_lines[k] \o CRLF]))

\* the server's answer to the pending command: untagged lines, none of them a
\* BYE, and the tagged completion line last
IsResponse ==
    /\ rl_caller = "read_response"
    /\ StartsWith(srv_lines[Len(srv_lines)], termination_string)
    /\ \A i \in 1 .. Len(srv_lines) : ~StartsWith(srv_lines[i], BYE_PREFIX)

\* C5: read_response, however the server's bytes are split across reads,
\* ends with success on a termination line exactly when the tagged
\* completion line has arrived whole (never on an earlier line, and never
\* reading on once it is there), and the buffer returned then holds every
\* line before the completion line and not the completion line.
C5_ReadResponseStopsAtTag ==
    IsResponse =>
        /\ rl_pc = "ok_term" =>
              /\ srv_pos = Len(SrvOut)
              /\ ret = Slice(SrvOut, 0, LineEnd(Len(srv_lines) - 1))
        /\ rl_pc = "reading" => srv_pos < Len(SrvOut)

\* C5 witness: a three-line response, the tag two digits long, returned whole
C5_Witness ==
    /\ IsResponse
    /\ rl_pc = "ok_term"
    /\ Len(srv_lines) = 3
    /\ termination_string = Tag(10)
    /\ srv_lines[2] = LineLongerTag(10)
    /\ ret = LineExists \o CRLF \o LineLongerTag(10) \o CRLF

\* a BYE line has arrived whole
ByeReceived ==
    \E i \in 1 .. Len(srv_lines) :
        StartsWith(srv_lines[i], BYE_PREFIX) /\ srv_pos >= LineEnd(i)

\* C6: an unsolicited "* BYE" line, wherever in the response it arrives,
\* makes read_lines return the disconnect error.
C6_ByeDisconnects == ByeReceived => rl_pc = "err_bye"

\* a line beginning with the termination string has arrived whole
TerminationLineReceived ==
    \E i \in 1 .. Len(srv_lines) :
        StartsWith(srv_lines[i], termination_string) /\ srv_pos >= LineEnd(i)

\* C35 as stated: with a termination string that is not empty, read_lines
\* returns Ok only when a whole line beginning with it was received; it
\* does not return Ok when the stream ends before.
C35_OkOnlyAfterTerminationLine ==
    (termination_string # <<>> /\ rl_pc \in {"ok_term", "ok_eof"})
        => TerminationLineReceived

---------------------------------------------------------------------------
(* SpecLit: ImapStream::send_literal, connection.rs 128-135.               *)

\* send_literal without the ends_with test of line 130
SendLiteralWrites_NoTest(data) == <<data, CRLF, CRLF>>

\* the buffers send_literal hands to write_all, in order (129-133)
SendLiteralWrites(data) ==
    <<data>> \o (IF ~EndsWith(data, CRLF) THEN <<CRLF>> ELSE <<>>) \o <<CRLF>>

\* the payloads send_literal is called with
LitPayloads == SeqsUpTo({"a", "\r", "\n"}, MaxLitLen)

InitLit ==
    /\ lit_data \in LitPayloads
    /\ lit_sent = <<>>
    /\ lit_pc = "call"
    /\ ReadIdle
    /\ ConnIdle
    /\ RestIdle

\* every write_all succeeds: Ok(()) (134)
SendLiteralOk ==
    /\ lit_pc = "call"
    /\ lit_sent' = Concat(SendLiteralWrites(lit_data))
    /\ lit_pc' = "Ok"
    /\ UNCHANGED lit_data
    /\ UNCHANGED litOthers

\* one write_all fails (the `?` of 129, 131, 133): a strict prefix of the
\* bytes is on the stream and the error is returned
SendLiteralErr ==
    /\ lit_pc = "call"
    /\ \E n \in 0 .. (Len(Concat(SendLiteralWrites(lit_data))) - 1) :
          lit_sent' = Slice(Concat(SendLiteralWrites(lit_data)), 0, n)
    /\ lit_pc' = "Err"
    /\ UNCHANGED lit_data
    /\ UNCHANGED litOthers

NextLit == SendLiteralOk \/ SendLiteralErr

SpecLit == InitLit /\ [][NextLit]_vars

\* C9 as claimed: send_literal(data) transmits, for every data, exactly the
\* bytes of data followed by CRLF CRLF.
C9_LiteralThenCrlfCrlf == lit_pc = "Ok" => lit_sent = lit_data \o CRLF \o CRLF

\* C9 amended: send_literal(data) transmits the bytes of data followed by
\* CRLF CRLF when data does not end with CRLF and by one CRLF when it does;
\* either way what is sent starts with data and ends with CRLF CRLF.
C9_LiteralEndsCrlfCrlf ==
    lit_pc = "Ok" =>
        /\ StartsWith(lit_sent, lit_data)
        /\ EndsWith(lit_sent, CRLF \o CRLF)
        /\ Len(lit_sent) = Len(lit_data) + (IF EndsWith(lit_data, CRLF) THEN 2 ELSE 4)

\* C9 witness: a payload that ends with CRLF has been sent
C9_Witness ==
    /\ lit_pc = "Ok"
    /\ lit_data = <<"a", "\r", "\n">>
    /\ lit_sent = <<"a", "\r", "\n", "\r", "\n">>

---------------------------------------------------------------------------
(* SpecConn: ImapConnection (242-385) over ImapStream::new_connection      *)
(* (148-240), ImapStream::send_command (113-126) and Drop (51-55).         *)
(* Every write, read and handshake may fail; the server picks a greeting.  *)

GREETING_CAP_PREFIX == <<"*", " ", "O", "K", " ", "[", "C", "A", "P", "A", "B", "I", "L", "I", "T", "Y">>

GREETING_OK_PREFIX == <<"*", " ", "O", "K", " ">>

\* "M0 OK Begin TLS negotiation now.\r\n" (199)
STARTTLS_OK == <<"M", "0", " ", "O", "K", " ", "B", "e", "g", "i", "n", " ", "T", "L", "S", " ", "n", "e", "g", "o", "t", "i", "a", "t", "i", "o", "n", " ", "n", "o", "w", ".", "\r", "\n">>

\* a greeting with an inline CAPABILITY list
GreetingWithCaps == <<"*", " ", "O", "K", " ", "[", "C", "A", "P", "A", "B", "I", "L", "I", "T", "Y", " ", "I", "M", "A", "P", "4", "r", "e", "v", "1", "]", " ", "h", "i", "\r", "\n">>

\* a greeting without one
GreetingPlain == <<"*", " ", "O", "K", " ", "h", "i", "\r", "\n">>

Greetings == {"caps", "plain"}

\* the greeting line the server sends
GreetingLine(g) == IF g = "caps" THEN GreetingWithCaps ELSE GreetingPlain

\* the server's bytes up to the TLS handshake: its greeting, then its answer
\* to the STARTTLS command
GreetingScript(g) == GreetingLine(g) \o STARTTLS_OK

\* an event on the socket: a command line written in full ("cmd"), a command
\* cut after its tag ("cut"), bytes of another kind written ("raw"), a write
\* that failed before it was through ("junk"), a line received ("recv"), the
\* TLS handshake ("tls")
Ev(kind, tag, name) == [ev |-> kind, tag |-> tag, name |-> name]

\* the loop of new_connection left as soon as the greeting was seen, without
\* the wait for the answer to STARTTLS (199)
NewConnectionChunk_NoWait(resp0, cap0, chunk) ==
    LET r       == resp0 \o chunk
        pos     == Find(r, CRLF)
        drained == IF pos # None THEN SliceFrom(r, pos + 2) ELSE r
        r1      == IF StartsWith(r, GREETING_CAP_PREFIX) THEN drained ELSE r
        cap1    == cap0 \/ StartsWith(r, GREETING_CAP_PREFIX)
    IN  [response |-> r1, cap_flag |-> cap1, done |-> cap1]

\* One pass of the loop of new_connection for a read of `chunk` (181-201):
\* the new response and cap_flag, and whether the loop is left (199-200).
NewConnectionChunk(resp0, cap0, chunk) ==
    LET r       == resp0 \o chunk
        pos     == Find(r, CRLF)
        drained == IF pos # None THEN SliceFrom(r, pos + 2) ELSE r
        r1      == IF ~cap0
                   THEN IF StartsWith(r, GREETING_CAP_PREFIX) THEN drained
                        ELSE IF StartsWith(r, GREETING_OK_PREFIX) /\ pos # None THEN drained
                        ELSE r
                   ELSE IF StartsWith(r, GREETING_CAP_PREFIX) THEN drained ELSE r
        cap1    == cap0 \/ StartsWith(r, GREETING_CAP_PREFIX)
    IN  [response |-> r1, cap_flag |-> cap1, done |-> cap1 /\ r1 = STARTTLS_OK]

\* how a send_command may end: all five writes through, one of the writes of
\* the tag (115-117) failed, one of the writes after it (120-121) failed
SendFailures == {"none", "tag", "body"}

\* ImapStream::send_command (113-126) on a stream with cmd_id `id` and socket
\* history w: the new cmd_id and history, and Ok(val) or Err
SendCommand(id, w, name, fail) ==
    CASE fail = "none" -> [cmd_id |-> id + 1, wire |-> Append(w, Ev("cmd", id, name)),
                           ok |-> TRUE, val |-> id]
      [] fail = "tag"  -> [cmd_id |-> id, wire |-> Append(w, Ev("junk", None, name)),
                           ok |-> FALSE, val |-> 0]
      [] fail = "body" -> [cmd_id |-> id + 1, wire |-> Append(w, Ev("cut", id, name)),
                           ok |-> FALSE, val |-> 0]

\* impl Drop for ImapStream (51-55): send_command(b"LOGOUT"), its result
\* thrown away; the socket history afterwards
DropStream(id, w, fail) == SendCommand(id, w, "LOGOUT", fail).wire

\* the operations of ImapConnection (259-385)
Ops == {"send_command", "read_response", "read_lines", "wait_for_continuation_request",
        "send_literal", "send_raw", "set_nonblocking"}

\* how the ImapStream method behind operation o may end
OpFailures(o) == IF o = "send_command" THEN SendFailures ELSE {"none", "io"}

\* The ImapStream method behind operation o (58-146) on a stream with cmd_id
\* `id` and socket history w.  send_command sends NOOP; the reads return Ok
\* or Err as SpecRead shows; send_literal and send_raw write bytes.
StreamOp(o, id, w, fail) ==
    CASE o = "send_command" -> SendCommand(id, w, "NOOP", fail)
      [] o \in {"send_literal", "send_raw"} ->
            [cmd_id |-> id,
             wire |-> Append(w, Ev(IF fail = "none" THEN "raw" ELSE "junk", None, o)),
             ok |-> fail = "none", val |-> 0]
      [] OTHER -> [cmd_id |-> id, wire |-> w, ok |-> fail = "none", val |-> 0]

Ok(v) == [status |-> "Ok", val |-> v, err |-> ""]

Err(e) == [status |-> "Err", val |-> 0, err |-> e]

\* `if let Ok(ref mut stream) = self.stream` (260, 278, 296, 314, 332, 350, 369)
IsConnected == stream = "Ok"

InitConn == ConnIdle /\ ReadIdle /\ LitIdle /\ RestIdle

\* `let cmd_id = 0` (174): the tag of STARTTLS, and the cmd_id the ImapStream
\* is built with (229)
StartTlsCmdId == 0

\* the script of the server of the current socket
Script == GreetingScript(greeting)

\* an operation called offline that tries again after a failure
OfflineNext_Retry(step, ok) ==
    CASE step = "connect"   -> IF ok THEN "nc_wait" ELSE "idle"
      [] step = "wait"      -> IF ok THEN "nc_tls" ELSE "idle"
      [] step = "handshake" -> IF ok THEN "nc_login" ELSE "idle"
      [] step = "login"     -> IF ok THEN "nc_caps" ELSE "idle"
      [] step = "caps"      -> IF ok THEN "op" ELSE "idle"
      [] step = "run"       -> IF ok THEN "idle" ELSE "op"

\* Where an operation called offline stands after one of its steps: each `?`
\* of new_connection (162-235) and of its call (263-268, ..., 372-377)
\* returns the error, and so does the method's own failure (269-274, ...).
OfflineNext(step, ok) ==
    CASE step = "connect"   -> IF ok THEN "nc_wait" ELSE "idle"
      [] step = "wait"      -> IF ok THEN "nc_tls" ELSE "idle"
      [] step = "handshake" -> IF ok THEN "nc_login" ELSE "idle"
      [] step = "login"     -> IF ok THEN "nc_caps" ELSE "idle"
      [] step = "caps"      -> IF ok THEN "op" ELSE "idle"
      [] step = "run"       -> "idle"

\* new_connection returns: its locals are gone
LocalsGone == greeting' = "none" /\ nc_pos' = 0 /\ response' = <<>> /\ cap_flag' = FALSE

\* an ImapStream with cmd_id `id` goes out of scope: Drop runs
Drops(id, w) ==
    \E g \in SendFailures :
        /\ wire' = DropStream(id, w, g)
        /\ cmd_id' = SendCommand(id, w, "LOGOUT", g).cmd_id
        /\ dropped' = TRUE

\* An operation on a connected ImapConnection: the ImapStream method is
\* called and its result returned (260-262, 278-280, ..., 369-371).
CallConnected(o) ==
    /\ pc = "idle" /\ IsConnected /\ n_ops < MaxOps
    /\ \E f \in OpFailures(o) :
          LET r == StreamOp(o, cmd_id, wire, f)
          IN  /\ cmd_id' = r.cmd_id
              /\ wire' = r.wire
              /\ result' = IF r.ok THEN Ok(r.val) ELSE Err("op")
    /\ op' = o /\ was_offline' = FALSE /\ nc_calls' = 0 /\ op_calls' = 1
    /\ n_ops' = n_ops + 1
    /\ UNCHANGED <<stream, capabilities, dropped, pc, n_conn, greeting, nc_pos, response,
                   cap_flag, new_caps>>
    /\ UNCHANGED connOthers

\* An operation on an ImapConnection in the error state calls new_connection
\* (263, ..., 372), which builds the connector, looks the host up and
\* connects (158-173): a failure returns.
CallOfflineNoSocket(o) ==
    /\ pc = "idle" /\ ~IsConnected /\ n_ops < MaxOps /\ n_conn < MaxConnects
    /\ op' = o /\ was_offline' = TRUE /\ nc_calls' = 1 /\ op_calls' = 0
    /\ n_ops' = n_ops + 1 /\ n_conn' = n_conn + 1
    /\ result' = Err("connect")
    /\ pc' = OfflineNext("connect", FALSE)
    /\ UNCHANGED <<stream, capabilities, cmd_id, wire, dropped, greeting, nc_pos, response,
                   cap_flag, new_caps>>
    /\ UNCHANGED connOthers

\* ... and on the new socket writes "M0 STARTTLS\r\n" at once (173-179)
CallOffline(o) ==
    /\ pc = "idle" /\ ~IsConnected /\ n_ops < MaxOps /\ n_conn < MaxConnects
    /\ op' = o /\ was_offline' = TRUE /\ nc_calls' = 1 /\ op_calls' = 0
    /\ n_ops' = n_ops + 1 /\ n_conn' = n_conn + 1
    /\ cmd_id' = StartTlsCmdId
    /\ dropped' = FALSE
    /\ \E ok \in BOOLEAN :
          /\ wire' = <<Ev(IF ok THEN "cmd" ELSE "junk", IF ok THEN StartTlsCmdId ELSE None, "STARTTLS")>>
          /\ result' = IF ok THEN NoResult ELSE Err("connect")
          /\ pc' = OfflineNext("connect", ok)
          /\ IF ok
             THEN greeting' \in Greetings /\ nc_pos' = 0 /\ response' = <<>> /\ cap_flag' = FALSE
             ELSE LocalsGone
    /\ UNCHANGED <<stream, capabilities, new_caps>>
    /\ UNCHANGED connOthers

\* socket.read gives len > 0 bytes (181-201)
NcRead ==
    /\ pc = "nc_wait"
    /\ \E b \in 1 .. Min({BufSize, Len(Script) - nc_pos}) :
          LET step == NewConnectionChunk(response, cap_flag, Slice(Script, nc_pos, nc_pos + b))
              gl   == Len(GreetingLine(greeting))
          IN  /\ response' = step.response
              /\ cap_flag' = step.cap_flag
              /\ nc_pos' = nc_pos + b
              /\ wire' = wire
                   \o (IF nc_pos < gl /\ nc_pos + b >= gl
                       THEN <<Ev("recv", None, "greeting")>> ELSE <<>>)
                   \o (IF nc_pos + b = Len(Script)
                       THEN <<Ev("recv", None, "starttls_ok")>> ELSE <<>>)
              /\ pc' = IF step.done THEN OfflineNext("wait", TRUE) ELSE pc
    /\ UNCHANGED <<stream, capabilities, cmd_id, dropped, op, result, was_offline, nc_calls,
                   op_calls, n_ops, n_conn, greeting, new_caps>>
    /\ UNCHANGED connOthers

\* socket.read gives 0 bytes, the server having sent all it has: the loop
\* body runs on an unchanged response (181-201)
NcReadNothing ==
    /\ pc = "nc_wait" /\ nc_pos = Len(Script)
    /\ LET step == NewConnectionChunk(response, cap_flag, <<>>)
       IN  /\ response' = step.response
           /\ cap_flag' = step.cap_flag
           /\ pc' = IF step.done THEN OfflineNext("wait", TRUE) ELSE pc
    /\ UNCHANGED <<stream, capabilities, cmd_id, wire, dropped, op, result, was_offline,
                   nc_calls, op_calls, n_ops, n_conn, greeting, nc_pos, new_caps>>
    /\ UNCHANGED connOthers

\* socket.read fails: `?` (181)
NcReadError ==
    /\ pc = "nc_wait"
    /\ result' = Err("connect")
    /\ pc' = OfflineNext("wait", FALSE)
    /\ LocalsGone
    /\ UNCHANGED <<stream, capabilities, cmd_id, wire, dropped, op, was_offline, nc_calls,
                   op_calls, n_ops, n_conn, new_caps>>
    /\ UNCHANGED connOthers

\* set_read_timeout and the TLS handshake (204-228), then the ImapStream is
\* built (229); a failure returns
NcHandshake ==
    /\ pc = "nc_tls"
    /\ \E ok \in BOOLEAN :
          /\ wire' = IF ok THEN Append(wire, Ev("tls", None, "handshake")) ELSE wire
          /\ result' = IF ok THEN result ELSE Err("connect")
          /\ pc' = OfflineNext("handshake", ok)
          /\ IF ok THEN UNCHANGED <<greeting, nc_pos, response, cap_flag>> ELSE LocalsGone
    /\ cmd_id' = StartTlsCmdId
    /\ UNCHANGED <<stream, capabilities, dropped, op, was_offline, nc_calls, op_calls, n_ops,
                   n_conn, new_caps>>
    /\ UNCHANGED connOthers

\* ret.send_command(LOGIN ...)? (230-232): on failure `ret` is dropped
NcLogin ==
    /\ pc = "nc_login"
    /\ \E f \in SendFailures :
          LET r == SendCommand(cmd_id, wire, "LOGIN", f)
          IN  /\ pc' = OfflineNext("login", r.ok)
              /\ IF r.ok
                 THEN /\ cmd_id' = r.cmd_id /\ wire' = r.wire
                      /\ UNCHANGED <<dropped, result, greeting, nc_pos, response, cap_flag>>
                 ELSE /\ Drops(r.cmd_id, r.wire)
                      /\ result' = Err("connect")
                      /\ LocalsGone
    /\ UNCHANGED <<stream, capabilities, op, was_offline, nc_calls, op_calls, n_ops, n_conn,
                   new_caps>>
    /\ UNCHANGED connOthers

\* ret.read_lines(&mut res, String::new())? and the parse of the capabilities
\* (233-238): on failure `ret` is dropped
NcCapabilities ==
    /\ pc = "nc_caps"
    /\ \E ok \in BOOLEAN :
          /\ pc' = OfflineNext("caps", ok)
          /\ IF ok
             THEN /\ new_caps' = n_conn
                  /\ UNCHANGED <<cmd_id, wire, dropped, result>>
             ELSE /\ Drops(cmd_id, wire)
                  /\ result' = Err("connect")
                  /\ UNCHANGED new_caps
    /\ LocalsGone
    /\ UNCHANGED <<stream, capabilities, op, was_offline, nc_calls, op_calls, n_ops, n_conn>>
    /\ UNCHANGED connOthers

\* the method called on the new stream, the stream and its capabilities
\* stored whatever the method returned
OfflineRun_AlwaysStore ==
    /\ pc = "op"
    /\ \E f \in OpFailures(op) :
          LET r == StreamOp(op, cmd_id, wire, f)
          IN  /\ pc' = OfflineNext("run", r.ok)
              /\ stream' = "Ok"
              /\ capabilities' = new_caps
              /\ cmd_id' = r.cmd_id /\ wire' = r.wire
              /\ result' = IF r.ok THEN Ok(r.val) ELSE Err("op")
              /\ UNCHANGED dropped
    /\ op_calls' = op_calls + 1
    /\ UNCHANGED <<op, was_offline, nc_calls, n_ops, n_conn, greeting, nc_pos, response,
                   cap_flag, new_caps>>
    /\ UNCHANGED connOthers

\* The method is called on the new stream; only if it succeeds does the
\* stream become the connection's and the capabilities get replaced
\* (269-274, 287-292, 305-310, 323-328, 341-346, 360-365, 378-383).
OfflineRun ==
    /\ pc = "op"
    /\ \E f \in OpFailures(op) :
          LET r == StreamOp(op, cmd_id, wire, f)
          IN  /\ pc' = OfflineNext("run", r.ok)
              /\ IF r.ok
                 THEN /\ stream' = "Ok"
                      /\ capabilities' = new_caps
                      /\ cmd_id' = r.cmd_id /\ wire' = r.wire
                      /\ result' = Ok(r.val)
                      /\ UNCHANGED dropped
                 ELSE /\ Drops(r.cmd_id, r.wire)
                      /\ result' = Err("op")
                      /\ UNCHANGED <<stream, capabilities>>
    /\ op_calls' = op_calls + 1
    /\ UNCHANGED <<op, was_offline, nc_calls, n_ops, n_conn, greeting, nc_pos, response,
                   cap_flag, new_caps>>
    /\ UNCHANGED connOthers

\* the owner lets go of a connected ImapConnection: its stream is dropped
DropConnection ==
    /\ pc = "idle" /\ IsConnected
    /\ Drops(cmd_id, wire)
    /\ pc' = "dropped"
    /\ UNCHANGED <<stream, capabilities, op, result, was_offline, nc_calls, op_calls, n_ops,
                   n_conn, greeting, nc_pos, response, cap_flag, new_caps>>
    /\ UNCHANGED connOthers

NextConn ==
    \/ \E o \in Ops : CallConnected(o)
    \/ \E o \in Ops : CallOfflineNoSocket(o)
    \/ \E o \in Ops : CallOffline(o)
    \/ NcRead
    \/ NcReadNothing
    \/ NcReadError
    \/ NcHandshake
    \/ NcLogin
    \/ NcCapabilities
    \/ OfflineRun
    \/ DropConnection

SpecConn == InitConn /\ [][NextConn]_vars

---------------------------------------------------------------------------
(* Claims about SpecConn.                                                  *)

IsCmd(e) == e.ev = "cmd"

\* the command lines written in full on the current socket
CmdsSent == SelectSeq(wire, IsCmd)

\* C1: on one connection, from the STARTTLS of new_connection on, the tags
\* of the commands sent are M0, M1, M2, ...: each used once, in increasing
\* order, without gaps or repeats.
C1_TagsCountUp == \A i \in 1 .. Len(CmdsSent) : CmdsSent[i].tag = i - 1

\* C2: from the offline state, send_command("NOOP") with a cooperating
\* server sends M0 STARTTLS, M1 LOGIN and M2 NOOP and returns tag id 2.
C2_NoopReturnsTwo ==
    (pc = "idle" /\ n_ops = 1 /\ op = "send_command" /\ result.status = "Ok") =>
        /\ result.val = 2
        /\ CmdsSent = <<Ev("cmd", 0, "STARTTLS"), Ev("cmd", 1, "LOGIN"), Ev("cmd", 2, "NOOP")>>

\* inside new_connection
InNewConnection == pc \in {"nc_wait", "nc_tls", "nc_login", "nc_caps"}

C4_FailureReconnects ==
    (pc = "idle" /\ op # "none" /\ ~was_offline /\ result.status = "Err") => nc_calls = 1

IsLoginStep(e) ==
    \/ e.ev \in {"recv", "tls"}
    \/ e.ev \in {"cmd", "cut"} /\ e.name \in {"STARTTLS", "LOGIN"}

\* the steps of the login sequence taken on the current socket, in order
LoginSteps == [i \in 1 .. Len(SelectSeq(wire, IsLoginStep)) |-> SelectSeq(wire, IsLoginStep)[i].name]

IsPrefix(a, b) == Len(a) <= Len(b) /\ \A i \in 1 .. Len(a) : a[i] = b[i]

\* C7 as claimed: the greeting is read first, then STARTTLS is sent, then the
\* answer to STARTTLS is awaited, then comes the TLS handshake, and only
\* then LOGIN.
C7_GreetingThenStartTls ==
    IsPrefix(LoginSteps, <<"greeting", "STARTTLS", "starttls_ok", "handshake", "LOGIN">>)

\* C7 amended: STARTTLS is sent first, right after the connect; then the
\* greeting and the answer to STARTTLS are read, then comes the TLS
\* handshake, and only after the handshake is LOGIN sent.
C7_StartTlsThenGreeting ==
    IsPrefix(LoginSteps, <<"STARTTLS", "greeting", "starttls_ok", "handshake", "LOGIN">>)

\* C7 witness: LOGIN has been sent
C7_Witness ==
    /\ pc = "nc_caps"
    /\ LoginSteps = <<"STARTTLS", "greeting", "starttls_ok", "handshake", "LOGIN">>

\* C8: for a greeting without an inline CAPABILITY list, followed by the
\* answer to STARTTLS, the wait of new_connection ends: once it has read
\* all of it, it is out of the loop.
C8_PlainGreetingEndsWait ==
    (pc = "nc_wait" /\ greeting = "plain") => nc_pos < Len(Script)

\* C10: when an ImapStream is dropped, the last thing written on it is a
\* LOGOUT command, the write may fail, and the tag it carries was not used
\* on this connection before.
C10_LogoutNextUnusedTag ==
    dropped =>
        /\ wire[Len(wire)].name = "LOGOUT"
        /\ wire[Len(wire)].ev \in {"cmd", "cut"} =>
              \A i \in 1 .. (Len(wire) - 1) :
                  wire[i].ev \in {"cmd", "cut"} => wire[i].tag # wire[Len(wire)].tag

---------------------------------------------------------------------------
(* ImapBlockingConnection, connection.rs 386-455.                          *)

\* the bytes the server may send: any mix of line bytes, CR and LF
BlkScripts == SeqsUpTo({"a", "\r", "\n"}, MaxBlBytes)

\* From<ImapConnection> (395-404) on a connection in either state
InitBlocking ==
    /\ bl_result = <<>>
    /\ bl_prev_res_length = 0
    /\ bl_stream \in {"Ok", "Err"}
    /\ bl_pc = "idle"
    /\ bl_item = NoItem
    /\ bl_srv \in BlkScripts
    /\ bl_pos = 0
    /\ bl_last = "none"
    /\ bl_reads = 0
    /\ bl_calls = 0
    /\ ImapIdle
    /\ MdIdle
    /\ FtIdle
    /\ LdIdle
    /\ LaterIdle

\* Vec::drain(0..n)
Drain(s, n) == SliceFrom(s, n)

\* the arm Ok(b), b > 0 (440-447)
BlockingReadStep(res0, chunk) ==
    LET res == res0 \o chunk
        pos == Find(res, CRLF)
    IN  IF pos # None
        THEN [result |-> res, prev_res_length |-> pos + Len(CRLF), done |-> TRUE,
              item |-> [some |-> TRUE, val |-> Slice(res, 0, pos + Len(CRLF))]]
        ELSE [result |-> res, prev_res_length |-> 0, done |-> FALSE, item |-> NoItem]

\* next() is called: lines 416-417
BlockingNext ==
    /\ bl_pc \in {"idle", "ret"}
    /\ bl_calls < MaxNextCalls
    /\ bl_result' = Drain(bl_result, bl_prev_res_length)
    /\ bl_prev_res_length' = 0
    /\ bl_pc' = "loop"
    /\ bl_last' = "none"
    /\ bl_reads' = 0
    /\ bl_calls' = bl_calls + 1
    /\ UNCHANGED <<bl_stream, bl_item, bl_srv, bl_pos>>
    /\ UNCHANGED blkOthers

\* conn.stream is Err and new_connection succeeds (425-432)
BlockingConnect ==
    /\ bl_pc = "loop"
    /\ bl_stream = "Err"
    /\ bl_stream' = "Ok"
    /\ UNCHANGED <<bl_result, bl_prev_res_length, bl_pc, bl_item, bl_srv, bl_pos,
                   bl_last, bl_reads, bl_calls>>
    /\ UNCHANGED blkOthers

\* conn.stream is Err and new_connection fails: return None (433-436)
BlockingConnectFails ==
    /\ bl_pc = "loop"
    /\ bl_stream = "Err"
    /\ bl_pc' = "ret"
    /\ bl_item' = NoItem
    /\ UNCHANGED <<bl_result, bl_prev_res_length, bl_stream, bl_srv, bl_pos,
                   bl_last, bl_reads, bl_calls>>
    /\ UNCHANGED blkOthers

\* stream.read(buf) gives Ok(b), b > 0 (438, 440-447)
BlockingRead ==
    /\ bl_pc = "loop"
    /\ bl_stream = "Ok"
    /\ \E b \in 1 .. Min({BufSize, Len(bl_srv) - bl_pos}) :
          LET step == BlockingReadStep(bl_result, Slice(bl_srv, bl_pos, bl_pos + b))
          IN  /\ bl_result' = step.result
              /\ bl_prev_res_length' = step.prev_res_length
              /\ bl_pc' = IF step.done THEN "ret" ELSE "loop"
              /\ bl_item' = IF step.done THEN step.item ELSE bl_item
              /\ bl_pos' = bl_pos + b
    /\ bl_last' = "bytes"
    /\ bl_reads' = bl_reads + 1
    /\ UNCHANGED <<bl_stream, bl_srv, bl_calls>>
    /\ UNCHANGED blkOthers

\* stream.read(buf) gives Ok(0), the server has closed the stream: continue (439)
BlockingReadEof ==
    /\ bl_pc = "loop"
    /\ bl_stream = "Ok"
    /\ bl_pos = Len(bl_srv)
    /\ bl_reads < Len(bl_srv) + MaxEmptyReads
    /\ bl_last' = "eof"
    /\ bl_reads' = bl_reads + 1
    /\ UNCHANGED <<bl_result, bl_prev_res_length, bl_stream, bl_pc, bl_item, bl_srv,
                   bl_pos, bl_calls>>
    /\ UNCHANGED blkOthers

\* stream.read(buf) gives Err(e): return None (448-451)
BlockingReadError ==
    /\ bl_pc = "loop"
    /\ bl_stream = "Ok"
    /\ bl_pc' = "ret"
    /\ bl_item' = NoItem
    /\ bl_last' = "err"
    /\ bl_reads' = bl_reads + 1
    /\ UNCHANGED <<bl_result, bl_prev_res_length, bl_stream, bl_srv, bl_pos, bl_calls>>
    /\ UNCHANGED blkOthers

NextBlocking ==
    \/ BlockingNext
    \/ BlockingConnect
    \/ BlockingConnectFails
    \/ BlockingRead
    \/ BlockingReadEof
    \/ BlockingReadError

SpecBlocking == InitBlocking /\ [][NextBlocking]_vars

\* C11: once a read of the running next() call has reported end-of-file (0
\* bytes) or an I/O error, the call has returned None: it is not still in
\* its loop, about to read again.
C11_EofOrErrorEndsNext ==
    bl_last \in {"eof", "err"} => (bl_pc = "ret" /\ bl_item = NoItem)

\* C37: the blocking iterator returns a complete line it already holds in
\* its buffer without waiting for further bytes: a next() call is never
\* about to read from the server while its buffer, the returned line
\* drained, holds a CRLF-terminated line.
C37_HeldLineReturnedWithoutRead ==
    (bl_pc = "loop" /\ bl_stream = "Ok") => Find(bl_result, CRLF) = None

---------------------------------------------------------------------------
(* MaildirOp::fetch_flags and set_flag, maildir.rs 95-150.                 *)

\* ":2,"
FLAG_SEP == <<":", "2", ",">>

\* the bits of Flag that have a letter
Flags == {"DRAFT", "FLAGGED", "PASSED", "REPLIED", "SEEN", "TRASHED"}

\* str::contains
Contains(s, p) == Occurrences(s, p) # {}

\* Path::file_name: the last component of the path
FileName(path) ==
    LET slash == RFind(path, <<"/">>)
    IN  IF slash = None THEN path ELSE SliceFrom(path, slash + 1)

\* PathBuf::pop / Path::parent: the path without its last component
Parent(path) ==
    LET slash == RFind(path, <<"/">>)
    IN  IF slash = None THEN <<>> ELSE Slice(path, 0, slash)

\* the match arms of lines 106-111 with the arms of 'R' and 'S' exchanged
FlagOfLetter_Swapped(c) ==
    CASE c = "D" -> "DRAFT"
      [] c = "F" -> "FLAGGED"
      [] c = "P" -> "PASSED"
      [] c = "R" -> "SEEN"
      [] c = "S" -> "REPLIED"
      [] c = "T" -> "TRASHED"
      [] OTHER -> "none"

\* the match arms of lines 106-111: the flag a letter stands for
FlagOfLetter(c) ==
    CASE c = "D" -> "DRAFT"
      [] c = "F" -> "FLAGGED"
      [] c = "P" -> "PASSED"
      [] c = "R" -> "REPLIED"
      [] c = "S" -> "SEEN"
      [] c = "T" -> "TRASHED"
      [] OTHER -> "none"

RECURSIVE FetchFlagsRev(_, _, _)
\* the loop of lines 103-114 over filename.chars().rev(), at character i
FetchFlagsRev(filename, i, flag) ==
    IF i = 0 THEN [panic |-> FALSE, flag |-> flag]
    ELSE IF filename[i] = "," THEN [panic |-> FALSE, flag |-> flag]
    ELSE IF FlagOfLetter(filename[i]) # "none"
    THEN FetchFlagsRev(filename, i - 1, flag \cup {FlagOfLetter(filename[i])})
    ELSE [panic |-> TRUE, flag |-> flag]

\* MaildirOp::fetch_flags (95-117)
FetchFlags(path) ==
    LET filename == FileName(path)
    IN  IF ~Contains(filename, FLAG_SEP)
        THEN NoFlags
        ELSE FetchFlagsRev(filename, Len(filename), {})

\* Flag::toggle: the bits of f are flipped
Toggle(flags, f) == (flags \ f) \cup (f \ flags)

\* lines 126-143 with the pushes of 'S' and 'T' made first
PushFlags_SeenFirst(new_name, flags) ==
    new_name
        \o (IF "SEEN" \in flags THEN <<"S">> ELSE <<>>)
        \o (IF "TRASHED" \in flags THEN <<"T">> ELSE <<>>)
        \o (IF "DRAFT" \in flags THEN <<"D">> ELSE <<>>)
        \o (IF "FLAGGED" \in flags THEN <<"F">> ELSE <<>>)
        \o (IF "PASSED" \in flags THEN <<"P">> ELSE <<>>)
        \o (IF "REPLIED" \in flags THEN <<"R">> ELSE <<>>)

\* lines 126-143: one push per flag that is set
PushFlags(new_name, flags) ==
    new_name
        \o (IF "DRAFT" \in flags THEN <<"D">> ELSE <<>>)
        \o (IF "FLAGGED" \in flags THEN <<"F">> ELSE <<>>)
        \o (IF "PASSED" \in flags THEN <<"P">> ELSE <<>>)
        \o (IF "REPLIED" \in flags THEN <<"R">> ELSE <<>>)
        \o (IF "SEEN" \in flags THEN <<"S">> ELSE <<>>)
        \o (IF "TRASHED" \in flags THEN <<"T">> ELSE <<>>)

\* MaildirOp::set_flag up to the rename (119-143): how it goes on ("rename",
\* or the Err of line 119, or the panic of fetch_flags), the local `flags`
\* and `new_name`
SetFlagName(path, f) ==
    LET found == RFind(path, FLAG_SEP)
        idx   == found + 3
        read  == FetchFlags(path)
    IN  IF found = None
        THEN [exit |-> "Err", flags |-> {}, new_name |-> <<>>]
        ELSE IF read.panic
        THEN [exit |-> "panic", flags |-> {}, new_name |-> Slice(path, 0, idx)]
        ELSE [exit |-> "rename", flags |-> Toggle(read.flag, f),
              new_name |-> PushFlags(Slice(path, 0, idx), Toggle(read.flag, f))]

\* the directories that hold message files
MdDirs == {<<"b", "o", "x", "/", "c", "u", "r">>, <<"a", ":", "2", ",", "/", "c", "u", "r">>}

\* every directory of the mail store
MdAllDirs == UNION {{d, Parent(d), Parent(d) \o <<"/", "n", "e", "w">>} : d \in MdDirs}

\* Path::is_dir
IsDir(path) == path \in MdAllDirs

\* the part of a file name in front of the flags, for each directory
MdPrefixes(d) ==
    IF d[1] = "b" THEN <<"1", "2", "3", "4", ".", "a", "b", "c", ".", "h", "o", "s", "t">> ELSE <<"m">>

\* what follows it: nothing, or ":2," and letters (X: not a flag letter)
MdSuffixes ==
    {<<>>} \cup {FLAG_SEP \o l : l \in SeqsUpTo({"D", "F", "P", "R", "S", "T", "X"}, MaxLetters)}

MdPaths == {d \o <<"/">> \o MdPrefixes(d) \o x : d \in MdDirs, x \in MdSuffixes}

\* what follows ":2," in the file name of a path
NameLetters(path) ==
    LET filename == FileName(path)
        sep      == RFind(filename, FLAG_SEP)
    IN  IF sep = None THEN <<>> ELSE SliceFrom(filename, sep + 3)

\* a MaildirOp for one message file, its envelope holding the token of the
\* same path; watch not yet called
InitFlags ==
    /\ md_path \in MdPaths
    /\ md_f \in SUBSET Flags
    /\ md_flags = {}
    /\ md_token = md_path
    /\ md_files = {md_path}
    /\ md_pc = "call"
    /\ md_fetched = NoFlags
    /\ wt_pc = "off" /\ wt_queue = <<>> /\ wt_closed = FALSE /\ wt_last = "none"
    /\ wt_errs = 0 /\ wt_delivered = 0 /\ wt_sink = <<>>
    /\ ImapIdle
    /\ BlkIdle
    /\ FtIdle
    /\ LdIdle
    /\ LaterIdle

\* notify::DebouncedEvent
Event(kind, path, to) == [kind |-> kind, path |-> path, to |-> to]

\* the directories watch() hands to the notifier (175-180)
Watched(dir) == \E d \in MdDirs : dir \in {d, Parent(d) \o <<"/", "n", "e", "w">>}

\* what the notifier may put in the channel for fs::rename(old, new): nothing
\* when it is not armed or sees neither directory, else a Rename, with or
\* without the NoticeRemove in front, or a Remove and a Create
RenameEvents(old, new) ==
    IF wt_pc = "off" \/ wt_closed \/ (~Watched(Parent(old)) /\ ~Watched(Parent(new)))
    THEN {<<>>}
    ELSE IF ~Watched(Parent(new))
    THEN {<<Event("Remove", old, <<>>)>>, <<Event("NoticeRemove", old, <<>>), Event("Remove", old, <<>>)>>}
    ELSE {<<Event("Rename", old, new)>>,
          <<Event("NoticeRemove", old, <<>>), Event("Rename", old, new)>>,
          <<Event("Remove", old, <<>>), Event("Create", new, <<>>)>>}

\* set_flag (118-150), fs::rename succeeding: the new name is not that of a
\* directory
SetFlag ==
    /\ md_pc = "call"
    /\ LET step == SetFlagName(md_path, md_f)
       IN  IF step.exit = "rename"
           THEN /\ ~IsDir(step.new_name)
                /\ md_flags' = step.flags
                /\ md_files' = (md_files \ {md_path}) \cup {step.new_name}
                /\ md_token' = step.new_name
                /\ md_pc' = "Ok"
                /\ \E evs \in RenameEvents(md_path, step.new_name) : wt_queue' = wt_queue \o evs
           ELSE /\ md_pc' = step.exit
                /\ UNCHANGED <<md_flags, md_files, md_token, wt_queue>>
    /\ UNCHANGED <<md_path, md_f, md_fetched, wt_pc, wt_closed, wt_last, wt_errs,
                   wt_delivered, wt_sink>>
    /\ UNCHANGED mdOthers

\* set_flag, fs::rename failing: the `?` of line 145
SetFlagRenameFails ==
    /\ md_pc = "call"
    /\ LET step == SetFlagName(md_path, md_f)
       IN  step.exit = "rename" /\ md_flags' = step.flags
    /\ md_pc' = "Err"
    /\ UNCHANGED <<md_path, md_f, md_token, md_files, md_fetched, wt_pc, wt_queue, wt_closed,
                   wt_last, wt_errs, wt_delivered, wt_sink>>
    /\ UNCHANGED mdOthers

\* the envelope's token makes a MaildirOp (146-148, 66-71) and fetch_flags
\* is called on it
FetchFlagsOfToken ==
    /\ md_pc = "Ok"
    /\ md_fetched' = FetchFlags(md_token)
    /\ md_pc' = "fetched"
    /\ UNCHANGED <<md_path, md_f, md_flags, md_token, md_files, wt_pc, wt_queue, wt_closed,
                   wt_last, wt_errs, wt_delivered, wt_sink>>
    /\ UNCHANGED mdOthers

NextFlags == SetFlag \/ SetFlagRenameFails \/ FetchFlagsOfToken

SpecFlags == InitFlags /\ [][NextFlags]_vars

\* C12: the flags fetch_flags decodes from the file name set_flag wrote are
\* exactly the flags set_flag encoded (its local `flags` after the toggle),
\* for every flag set.
C12_FlagRoundTrip ==
    md_pc = "fetched" => md_fetched = [panic |-> FALSE, flag |-> md_flags]

\* the round trip was made with all six flags set
C12_Witness ==
    md_pc = "fetched" /\ md_flags = Flags /\ md_fetched.flag = Flags /\ md_f # Flags

\* the flag letters in the order D,F,P,R,S,T, and the flag each stands for
LetterOrder == <<"D", "F", "P", "R", "S", "T">>

LetterFlag == [D |-> "DRAFT", F |-> "FLAGGED", P |-> "PASSED", R |-> "REPLIED",
               S |-> "SEEN", T |-> "TRASHED"]

\* l is the letters of the flag set F in lexicographic order, each once
SortedLettersOf(l, F) ==
    /\ \A i \in 1 .. Len(l) : l[i] \in DOMAIN LetterFlag /\ LetterFlag[l[i]] \in F
    /\ \A x \in F : \E i \in 1 .. Len(l) : LetterFlag[l[i]] = x
    /\ \A i, j \in 1 .. Len(l) :
          i < j => \E a, b \in 1 .. Len(LetterOrder) :
                      a < b /\ LetterOrder[a] = l[i] /\ LetterOrder[b] = l[j]

\* the file of path is named P:2,<letters>, every letter a flag letter
IsFlaggedName(path) ==
    /\ Contains(FileName(path), FLAG_SEP)
    /\ \A i \in 1 .. Len(NameLetters(path)) : NameLetters(path)[i] \in DOMAIN LetterFlag

\* the S3 file: cur/1234.abc.host:2,S
S3Path == <<"b", "o", "x", "/", "c", "u", "r", "/", "1", "2", "3", "4", ".", "a", "b", "c", ".",
            "h", "o", "s", "t", ":", "2", ",", "S">>

\* C13: when set_flag(f) on a file named P:2,<letters> has returned Ok, the
\* file has been renamed within its directory to P:2,<L>, L the letters of
\* the toggled flags in the order D,F,P,R,S,T, and the envelope's token
\* holds the new name; toggling SEEN on 1234.abc.host:2,S gives
\* 1234.abc.host:2,
C13_SetFlagRenames ==
    /\ (md_pc \in {"Ok", "fetched"} /\ IsFlaggedName(md_path))
       => LET l    == NameLetters(md_path)
              upto == Len(md_path) - Len(l)
          IN  /\ Slice(md_token, 0, upto) = Slice(md_path, 0, upto)
              /\ SortedLettersOf(SliceFrom(md_token, upto),
                                 Toggle({LetterFlag[l[i]] : i \in 1 .. Len(l)}, md_f))
              /\ md_files = {md_token}
    /\ (md_pc \in {"Ok", "fetched"} /\ md_path = S3Path /\ md_f = {"SEEN"})
       => md_token = Slice(S3Path, 0, Len(S3Path) - 1)

\* S3 has run
C13_Witness ==
    /\ md_pc = "Ok" /\ md_path = S3Path /\ md_f = {"SEEN"} /\ IsFlaggedName(md_path)
    /\ md_token = Slice(S3Path, 0, Len(S3Path) - 1) /\ md_files = {md_token}

---------------------------------------------------------------------------
(* MaildirType::watch, maildir.rs 167-217.                                 *)

\* the same with one flag at most to toggle and one letter at most in the name
InitWatch ==
    /\ InitFlags
    /\ Cardinality(md_f) <= 1
    /\ Len(NameLetters(md_path)) <= 1

\* DefaultHasher over the bytes of the path (203-204, 207)
HashOf(path) == <<"hash", path>>

\* RefreshEvent { folder, hash } (205-208)
RefreshEvent(path) == [folder |-> path, hash |-> HashOf(path)]

\* lines 192-200: the folder an event's path lies in
EventFolder(pathbuf) ==
    IF IsDir(pathbuf)
    THEN IF FileName(pathbuf) \in {<<"c", "u", "r">>, <<"n", "e", "w">>}
         THEN Parent(pathbuf)
         ELSE pathbuf
    ELSE Parent(Parent(pathbuf))

\* the match of lines 189-211: what is sent to the sink for one event
WatcherSends(event) ==
    IF event.kind \in {"Create", "Remove"}
    THEN <<RefreshEvent(EventFolder(event.path))>>
    ELSE <<>>

\* watch() (167-216): the notifier is armed, the thread enters its loop
Watch ==
    /\ wt_pc = "off"
    /\ wt_pc' = "recv"
    /\ UNCHANGED <<md_path, md_f, md_flags, md_token, md_files, md_pc, md_fetched,
                   wt_queue, wt_closed, wt_last, wt_errs, wt_delivered, wt_sink>>
    /\ UNCHANGED mdOthers

\* another program delivers a message to new/: the notifier reports it
ExternalDelivery ==
    /\ wt_pc = "recv"
    /\ ~wt_closed
    /\ wt_delivered < MaxDeliveries
    /\ \E d \in MdDirs :
          wt_queue' = Append(wt_queue,
                             Event("Create", Parent(d) \o <<"/", "n", "e", "w", "/", "n">>, <<>>))
    /\ wt_delivered' = wt_delivered + 1
    /\ UNCHANGED <<md_path, md_f, md_flags, md_token, md_files, md_pc, md_fetched,
                   wt_pc, wt_closed, wt_last, wt_errs, wt_sink>>
    /\ UNCHANGED mdOthers

\* rx.recv() gives Ok(event) (188-211)
WatcherRecv ==
    /\ wt_pc = "recv"
    /\ wt_queue # <<>>
    /\ wt_queue' = Tail(wt_queue)
    /\ wt_sink' = wt_sink \o WatcherSends(Head(wt_queue))
    /\ wt_last' = "Ok"
    /\ UNCHANGED <<md_path, md_f, md_flags, md_token, md_files, md_pc, md_fetched,
                   wt_pc, wt_closed, wt_errs, wt_delivered>>
    /\ UNCHANGED mdOthers

\* the notifier and with it every sender of the channel goes away
NotifierGone ==
    /\ wt_pc = "recv"
    /\ ~wt_closed
    /\ wt_closed' = TRUE
    /\ UNCHANGED <<md_path, md_f, md_flags, md_token, md_files, md_pc, md_fetched,
                   wt_pc, wt_queue, wt_last, wt_errs, wt_delivered, wt_sink>>
    /\ UNCHANGED mdOthers

\* rx.recv() gives Err: the channel is closed and empty (212), and the loop
\* of line 187 goes round
WatcherRecvErr ==
    /\ wt_pc = "recv"
    /\ wt_closed
    /\ wt_queue = <<>>
    /\ wt_errs < MaxRecvErrs
    /\ wt_last' = "Err"
    /\ wt_errs' = wt_errs + 1
    /\ UNCHANGED <<md_path, md_f, md_flags, md_token, md_files, md_pc, md_fetched,
                   wt_pc, wt_queue, wt_closed, wt_delivered, wt_sink>>
    /\ UNCHANGED mdOthers

NextWatch ==
    \/ SetFlag
    \/ SetFlagRenameFails
    \/ FetchFlagsOfToken
    \/ Watch
    \/ ExternalDelivery
    \/ WatcherRecv
    \/ NotifierGone
    \/ WatcherRecvErr

SpecWatch == InitWatch /\ [][NextWatch]_vars

\* Rename(old_hash, new_hash), the event of spec 4.2 and 4.3
RenameOf(old, new) == [kind |-> "Rename", old_hash |-> HashOf(old), new_hash |-> HashOf(new)]

\* C14: when set_flag has changed the name of the message file while the
\* watcher was armed, and the watcher thread has received every event the
\* notifier reported for it, a Rename(old, new) event has been sent to the
\* RefreshEventConsumer.
C14_RenameAnnounced ==
    (/\ md_pc \in {"Ok", "fetched"} /\ IsFlaggedName(md_path) /\ md_token # md_path
     /\ wt_pc = "recv" /\ wt_last = "Ok" /\ wt_delivered = 0 /\ wt_queue = <<>>)
    => \E i \in 1 .. Len(wt_sink) : wt_sink[i] = RenameOf(md_path, md_token)

\* C20: once rx.recv() has returned an error, the channel being closed, the
\* watcher thread has left its loop.
C20_WatcherExitsOnClose == wt_last = "Err" => wt_pc = "exited"

---------------------------------------------------------------------------
(* MaildirOp::as_bytes, fetch_headers, fetch_body, maildir.rs 78-94.       *)

\* the empty line that ends the header block
HEADER_END == <<"\n", "\n">>

\* parser::headers_raw(raw).to_full_result(): the header block, the bytes in
\* front of the first empty line; an error when there is none
HeadersRaw(raw) ==
    LET pos == Find(raw, HEADER_END)
    IN  IF pos = None \/ pos = 0
        THEN [status |-> "Err", val |-> <<>>, err |-> "parse"]
        ELSE [status |-> "Ok", val |-> Slice(raw, 0, pos), err |-> ""]

\* fetch_headers after as_bytes (87-88)
FetchHeadersOf(raw) == HeadersRaw(raw)

\* fetch_body after as_bytes (92-93)
FetchBodyOf(raw) == HeadersRaw(raw)

\* a MaildirOp for a message file with these bytes (h: a header byte, b: a
\* body byte)
InitFetch ==
    /\ ft_raw \in SeqsUpTo({"h", "\n", "b"}, MaxMsgLen)
    /\ ft_slice = FALSE
    /\ ft_op = "none"
    /\ ft_result = NoResult
    /\ ft_calls = 0
    /\ ImapIdle
    /\ BlkIdle
    /\ MdIdle
    /\ LdIdle
    /\ LaterIdle

\* fetch_headers (85-89), as_bytes succeeding
FetchHeaders ==
    /\ ft_calls < MaxFetches
    /\ ft_slice' = TRUE
    /\ ft_op' = "fetch_headers"
    /\ ft_result' = FetchHeadersOf(ft_raw)
    /\ ft_calls' = ft_calls + 1
    /\ UNCHANGED ft_raw
    /\ UNCHANGED ftOthers

\* fetch_body (90-94), as_bytes succeeding
FetchBody ==
    /\ ft_calls < MaxFetches
    /\ ft_slice' = TRUE
    /\ ft_op' = "fetch_body"
    /\ ft_result' = FetchBodyOf(ft_raw)
    /\ ft_calls' = ft_calls + 1
    /\ UNCHANGED ft_raw
    /\ UNCHANGED ftOthers

\* either of them when Mmap::open_path fails: the `?` of line 80
FetchMmapFails ==
    /\ ft_calls < MaxFetches
    /\ ~ft_slice
    /\ \E o \in {"fetch_headers", "fetch_body"} : ft_op' = o
    /\ ft_result' = [status |-> "Err", val |-> <<>>, err |-> "mmap"]
    /\ ft_calls' = ft_calls + 1
    /\ UNCHANGED <<ft_raw, ft_slice>>
    /\ UNCHANGED ftOthers

NextFetch == FetchHeaders \/ FetchBody \/ FetchMmapFails

SpecFetch == InitFetch /\ [][NextFetch]_vars

\* C15: what fetch_body returns with Ok is the bytes of the file that follow
\* the first empty line.
C15_FetchBodyReturnsBody ==
    (ft_op = "fetch_body" /\ ft_result.status = "Ok")
    => (/\ Find(ft_raw, HEADER_END) # None
        /\ ft_result.val = SliceFrom(ft_raw, Find(ft_raw, HEADER_END) + Len(HEADER_END)))

---------------------------------------------------------------------------
(* MaildirType::multicore, maildir.rs 273-347.                             *)

\* the `cores` MaildirType::get passes (165); multicore is called with 1 .. 4
GetCores == 4

\* the 100 of line 310
ReportEvery == 100

\* line 301-305: chunk_size
ChunkSize(count, cores) == IF count \div cores > 0 THEN count \div cores ELSE count

\* slice::chunks_exact(size): the pieces of exactly `size` elements, the
\* remainder left out
SliceChunks_WholeOnly(s, size) ==
    [i \in 1 .. (Len(s) \div size) |-> SubSeq(s, (i - 1) * size + 1, i * size)]

\* slice::chunks(size): consecutive pieces of `size` elements, the last one
\* shorter when size does not divide the length
SliceChunks(s, size) ==
    [i \in 1 .. ((Len(s) + size - 1) \div size) |->
        SubSeq(s, (i - 1) * size + 1, Min({i * size, Len(s)}))]

\* line 310: size
ReportSize(len) == IF len <= ReportEvery THEN ReportEvery ELSE (len \div ReportEvery) * ReportEvery

\* lines 316-328: the envelopes pushed to local_r for the files of c; a file
\* whose populate_headers fails is skipped by `continue`
ParseChunk(c, bad) == SelectSeq(c, LAMBDA e : e \notin bad)

\* AsyncStatus
ProgressReport(n) == [kind |-> "ProgressReport", n |-> n]

Finished == [kind |-> "Finished", n |-> 0]

\* the chunks the workers are spawned for (306), none for an empty listing
\* (299)
LoadChunks ==
    IF ld_files = <<>> THEN <<>> ELSE SliceChunks(ld_files, ChunkSize(Len(ld_files), ld_cores))

\* the pieces worker w reports on (314)
ReportChunks(w) == SliceChunks(ld_threads[w].chunk, ReportSize(Len(ld_threads[w].chunk)))

\* the scope never waiting for its workers
WorkersDone_NoWait(threads) == TRUE

\* crossbeam::scope returns (335) when every worker spawned in it has ended
WorkersDone(threads) == \A w \in 1 .. Len(threads) : threads[w].done

\* multicore(cores, folder) is called on a folder whose cur/ holds n files
InitLoadWith(maxFiles, maxCores, maxBad) ==
    /\ ld_cores \in 1 .. maxCores
    /\ \E n \in 0 .. maxFiles : ld_files = [i \in 1 .. n |-> i]
    /\ ld_bad \in {b \in SUBSET (1 .. Min({maxBad, maxFiles})) : b \subseteq 1 .. Len(ld_files)}
    /\ ld_pc = "start"
    /\ ld_threads = <<>>
    /\ ld_chan = <<>>
    /\ ld_joined = 0
    /\ ld_r = <<>>
    /\ ld_result = NoResult
    /\ ImapIdle
    /\ BlkIdle
    /\ MdIdle
    /\ FtIdle
    /\ LaterIdle

InitLoad == InitLoadWith(MaxFiles, GetCores, MaxFiles)

InitLoadLong == InitLoadWith(MaxLongFiles, 1, 1)

\* lines 285-299: cur/ is listed
ListDir ==
    /\ ld_pc = "start"
    /\ ld_pc' = IF ld_files = <<>> THEN "join" ELSE "scope"
    /\ UNCHANGED <<ld_cores, ld_files, ld_bad, ld_threads, ld_chan, ld_joined, ld_r, ld_result>>
    /\ UNCHANGED ldOthers

\* read_dir or one of its entries gives an error: the `?` of 287, 288, 295
ReadDirFails ==
    /\ ld_pc = "start"
    /\ ld_pc' = "done"
    /\ ld_result' = Err("read_dir")
    /\ UNCHANGED <<ld_cores, ld_files, ld_bad, ld_threads, ld_chan, ld_joined, ld_r>>
    /\ UNCHANGED ldOthers

\* lines 306-333: the next chunk gets its worker
SpawnWorker ==
    /\ ld_pc = "scope"
    /\ Len(ld_threads) < Len(LoadChunks)
    /\ ld_threads' = Append(ld_threads,
                            [chunk |-> LoadChunks[Len(ld_threads) + 1], next |-> 1,
                             local_r |-> <<>>, done |-> FALSE])
    /\ UNCHANGED <<ld_cores, ld_files, ld_bad, ld_pc, ld_chan, ld_joined, ld_r, ld_result>>
    /\ UNCHANGED ldOthers

\* lines 314-330: worker w parses its next piece and reports it
WorkerStep(w) ==
    /\ ld_pc = "scope"
    /\ w \in 1 .. Len(ld_threads)
    /\ ~ld_threads[w].done
    /\ ld_threads[w].next <= Len(ReportChunks(w))
    /\ LET c == ReportChunks(w)[ld_threads[w].next]
       IN  /\ ld_threads' = [ld_threads EXCEPT
                                ![w].local_r = @ \o ParseChunk(c, ld_bad),
                                ![w].next = @ + 1]
           /\ ld_chan' = Append(ld_chan, ProgressReport(Len(c)))
    /\ UNCHANGED <<ld_cores, ld_files, ld_bad, ld_pc, ld_joined, ld_r, ld_result>>
    /\ UNCHANGED ldOthers

\* line 331: worker w returns local_r
WorkerReturn(w) ==
    /\ ld_pc = "scope"
    /\ w \in 1 .. Len(ld_threads)
    /\ ~ld_threads[w].done
    /\ ld_threads[w].next > Len(ReportChunks(w))
    /\ ld_threads' = [ld_threads EXCEPT ![w].done = TRUE]
    /\ UNCHANGED <<ld_cores, ld_files, ld_bad, ld_pc, ld_chan, ld_joined, ld_r, ld_result>>
    /\ UNCHANGED ldOthers

\* line 335: every chunk has its worker and the scope has waited for them
ScopeEnd ==
    /\ ld_pc = "scope"
    /\ Len(ld_threads) = Len(LoadChunks)
    /\ WorkersDone(ld_threads)
    /\ ld_pc' = "join"
    /\ UNCHANGED <<ld_cores, ld_files, ld_bad, ld_threads, ld_chan, ld_joined, ld_r, ld_result>>
    /\ UNCHANGED ldOthers

\* lines 337-340: the next of `threads` is joined, its result appended to r
JoinThread ==
    /\ ld_pc = "join"
    /\ ld_joined < Len(ld_threads)
    /\ ld_r' = ld_r \o ld_threads[ld_joined + 1].local_r
    /\ ld_joined' = ld_joined + 1
    /\ UNCHANGED <<ld_cores, ld_files, ld_bad, ld_pc, ld_threads, ld_chan, ld_result>>
    /\ UNCHANGED ldOthers

\* lines 341-342: Finished is sent and r returned
Finish ==
    /\ ld_pc = "join"
    /\ ld_joined = Len(ld_threads)
    /\ ld_chan' = Append(ld_chan, Finished)
    /\ ld_result' = [status |-> "Ok", val |-> ld_r, err |-> ""]
    /\ ld_pc' = "done"
    /\ UNCHANGED <<ld_cores, ld_files, ld_bad, ld_threads, ld_joined, ld_r>>
    /\ UNCHANGED ldOthers

NextLoad ==
    \/ ListDir
    \/ ReadDirFails
    \/ SpawnWorker
    \/ \E w \in 1 .. Len(ld_threads) : WorkerStep(w)
    \/ \E w \in 1 .. Len(ld_threads) : WorkerReturn(w)
    \/ ScopeEnd
    \/ JoinThread
    \/ Finish

SpecLoad == InitLoad /\ [][NextLoad]_vars

SpecLoadLong == InitLoadLong /\ [][NextLoad]_vars

\* C16: the number of parsing workers spawned for a load with concurrency
\* level N never exceeds N.
C16_AtMostNWorkers == Len(ld_threads) <= ld_cores

\* C17: every ProgressReport a worker sends covers at most 100 messages.
C17_ReportsAtMostHundred ==
    \A i \in 1 .. Len(ld_chan) :
        ld_chan[i].kind = "ProgressReport" => ld_chan[i].n <= ReportEvery

\* the places of Finished among the messages sent
FinishedAt == {i \in 1 .. Len(ld_chan) : ld_chan[i] = Finished}

\* C18: Finished is sent at most once; when it has been sent it is the last
\* message, every chunk has had its worker, every worker has reported all its
\* pieces, ended and been joined; and a load that returned Ok has sent it
\* exactly once and returns the envelopes of every worker, each once.
C18_FinishedOnceAfterJoin ==
    /\ Cardinality(FinishedAt) <= 1
    /\ \A i \in FinishedAt :
          /\ i = Len(ld_chan)
          /\ Len(ld_threads) = Len(LoadChunks)
          /\ ld_joined = Len(ld_threads)
          /\ \A w \in 1 .. Len(ld_threads) :
                ld_threads[w].done /\ ld_threads[w].next > Len(ReportChunks(w))
    /\ (ld_pc = "done" /\ ld_result.status = "Ok")
       => /\ Cardinality(FinishedAt) = 1
          /\ \A w \in 1 .. Len(ld_threads) : \A k \in 1 .. Len(ld_threads[w].local_r) :
                Cardinality({j \in 1 .. Len(ld_result.val) :
                                ld_result.val[j] = ld_threads[w].local_r[k]}) = 1
          /\ \A j \in 1 .. Len(ld_result.val) :
                \E w \in 1 .. Len(ld_threads) : \E k \in 1 .. Len(ld_threads[w].local_r) :
                    ld_result.val[j] = ld_threads[w].local_r[k]

\* five files loaded by three workers (cores = 2), the third worker having
\* reported first
C18_Witness ==
    /\ ld_pc = "done" /\ ld_cores = 2 /\ Len(ld_threads) = 3
    /\ ld_chan = <<ProgressReport(1), ProgressReport(2), ProgressReport(2), Finished>>
    /\ ld_result = [status |-> "Ok", val |-> <<1, 2, 3, 4, 5>>, err |-> ""]

\* C19: a load that returned Ok returns as many envelopes as cur/ lists
\* files, the files that failed to parse included.
C19_FailedMessagesRetained ==
    (ld_pc = "done" /\ ld_result.status = "Ok") => Len(ld_result.val) = Len(ld_files)

RECURSIVE ReportedCount(_)
\* the sum of the counts of the ProgressReport messages among chan
ReportedCount(chan) ==
    IF chan = <<>> THEN 0
    ELSE (IF Head(chan).kind = "ProgressReport" THEN Head(chan).n ELSE 0)
         + ReportedCount(Tail(chan))

\* C38: when a load has sent Finished, the counts of the ProgressReport
\* messages sent before it add up to the number of files listed in cur/,
\* whatever the size of the listing, the chunking and the files that
\* failed to parse.
C38_ReportsSumToListing ==
    \A i \in FinishedAt : ReportedCount(SubSeq(ld_chan, 1, i - 1)) = Len(ld_files)

\* C38 witness: five files, two of which fail to parse, loaded by three
\* workers
C38_Witness ==
    /\ ld_pc = "done" /\ ld_result.status = "Ok" /\ Len(ld_files) = 5 /\ ld_bad = {2, 5}
    /\ Len(ld_threads) = 3 /\ Len(ld_result.val) = 3
    /\ Finished = ld_chan[Len(ld_chan)]

(***************************************************************************)
(* Part 4.  Enumeration of the Maildir folders                             *)
(*          (melib/src/mailbox/backends/maildir.rs, MaildirType::new)      *)
(*                                                                         *)
(* fd_tree lists the directories of the mail store: fd_tree[1] is the      *)
(* configured root, fd_tree[d].parent the directory that holds d and       *)
(* fd_tree[d].has the reserved subdirectories found in d.  read_dir lists  *)
(* the entries of a directory in ascending number; every numbering of a    *)
(* tree being an input, every listing order is.                            *)
(***************************************************************************)

\* the names is_valid looks for, in its order
Reserved == <<"cur", "new", "tmp">>

\* what a directory of the store may hold of the reserved names
ReservedSets == {{"cur", "new", "tmp"}, {"new", "tmp"}, {"cur", "tmp"}, {"cur", "new"}, {}}

RECURSIVE UnderRoot(_, _, _)
\* directory d of tree t is the root or lies under it, within `fuel' steps
UnderRoot(t, d, fuel) ==
    IF d = 1 THEN TRUE
    ELSE IF fuel = 0 \/ d = 0 THEN FALSE
    ELSE UnderRoot(t, t[d].parent, fuel - 1)

\* the stores MaildirType::new is given
DirTrees ==
    UNION {{t \in [1 .. n -> [parent : 0 .. n, has : ReservedSets]] :
               /\ t[1].parent = 0
               /\ \A d \in 2 .. n : t[d].parent # 0 /\ UnderRoot(t, d, n)}
           : n \in 1 .. MaxDirs}

\* a mutation of is_valid that looks for cur/ only
IsValid_CurOnly(t, d) == "cur" \in t[d].has

\* MaildirFolder::is_valid of directory d
IsValid(t, d) == \A k \in 1 .. Len(Reserved) : Reserved[k] \in t[d].has

RECURSIVE SubDirs(_, _, _)
\* read_dir(p) without the reserved names: the directories of p from number d on
SubDirs(t, p, d) ==
    IF d > Len(t) THEN <<>>
    ELSE IF t[d].parent = p THEN <<d>> \o SubDirs(t, p, d + 1)
    ELSE SubDirs(t, p, d + 1)

\* a mutation of the index pushed to children: the length after the push
ChildIndex_Len(folders) == Len(folders)

\* folders.len() - 1, the index of the folder just pushed
ChildIndex(folders) == Len(folders) - 1

RECURSIVE recurse_folders(_, _, _, _)
\* the loop of recurse_folders over the entries `entries' still to visit,
\* with the folder vector and the children collected so far
recurse_folders(t, folders, entries, children) ==
    IF entries = <<>> THEN [folders |-> folders, children |-> children]
    ELSE LET path == Head(entries)
             sub == recurse_folders(t, folders, SubDirs(t, path, 1), <<>>)
             pushed == Append(sub.folders, [path |-> path, children |-> sub.children])
         IN  IF IsValid(t, path)
             THEN recurse_folders(t, pushed, Tail(entries),
                                  Append(children, ChildIndex(pushed)))
             ELSE recurse_folders(t, sub.folders, Tail(entries), children)

\* MaildirType::new: the folders of the store t
NewMaildirType(t) ==
    LET sub == recurse_folders(t, <<>>, SubDirs(t, 1, 1), <<>>)
    IN  IF IsValid(t, 1)
        THEN Append(sub.folders, [path |-> 1, children |-> sub.children])
        ELSE sub.folders

InitFolders ==
    /\ EarlyIdle
    /\ ThIdle
    /\ SvIdle
    /\ LastIdle
    /\ fd_tree \in DirTrees
    /\ fd_pc = "call"
    /\ fd_folders = <<>>
    /\ fd_watched = {}

\* MaildirType::new(settings)
NewFolders ==
    /\ fd_pc = "call"
    /\ fd_folders' = NewMaildirType(fd_tree)
    /\ fd_pc' = "built"
    /\ UNCHANGED <<fd_tree, fd_watched>>
    /\ UNCHANGED fdOthers

\* MaildirType::watch up to the spawn: cur/ and new/ of every valid folder
WatchFolders ==
    /\ fd_pc = "built"
    /\ fd_watched' = {fd_folders[i].path : i \in {j \in 1 .. Len(fd_folders) :
                                                    IsValid(fd_tree, fd_folders[j].path)}}
    /\ fd_pc' = "watched"
    /\ UNCHANGED <<fd_tree, fd_folders>>
    /\ UNCHANGED fdOthers

NextFolders == NewFolders \/ WatchFolders

SpecFolders == InitFolders /\ [][NextFolders]_vars

\* the directories in the folder vector
FolderDirs == {fd_folders[i].path : i \in 1 .. Len(fd_folders)}

\* C21: a directory is in the folder vector, and is watched, only if cur,
\* new and tmp all exist in it.
C21_FoldersHaveAllThree ==
    \A d \in FolderDirs \cup fd_watched : fd_tree[d].has = {"cur", "new", "tmp"}

\* a store of three directories of which one lacks tmp/ only: the two others
\* are folders and are watched
C21_Witness ==
    /\ fd_pc = "watched" /\ Len(fd_tree) = 3
    /\ \E d \in 1 .. 3 : fd_tree[d].has = {"cur", "new"} /\ FolderDirs = (1 .. 3) \ {d}
    /\ fd_watched = FolderDirs

\* the folders (0-based indices) whose children list holds index c
ParentsOf(c) ==
    {i \in 0 .. Len(fd_folders) - 1 :
        \E k \in 1 .. Len(fd_folders[i + 1].children) : fd_folders[i + 1].children[k] = c}

\* the children of every folder are earlier folders, its qualifying direct
\* subdirectories, each listed once
ChildrenAreSubfolders ==
    \A i \in 0 .. Len(fd_folders) - 1 :
        LET f == fd_folders[i + 1]
        IN  /\ \A k \in 1 .. Len(f.children) :
                  /\ f.children[k] \in 0 .. i - 1
                  /\ fd_tree[fd_folders[f.children[k] + 1].path].parent = f.path
                  /\ IsValid(fd_tree, fd_folders[f.children[k] + 1].path)
            /\ \A k, l \in 1 .. Len(f.children) : f.children[k] = f.children[l] => k = l

\* C22 as stated: children are earlier qualifying direct subdirectories, and
\* every folder but the root's is in exactly one children list.
C22_NoOrphan ==
    fd_pc # "call" =>
        /\ ChildrenAreSubfolders
        /\ \A c \in 0 .. Len(fd_folders) - 1 :
              fd_folders[c + 1].path # 1 => Cardinality(ParentsOf(c)) = 1

\* C22 amended: every qualifying directory is a folder exactly once; a
\* folder is in the children list of its parent directory's folder and in
\* no other when that directory qualifies, and in none when it does not.
C22_ChildrenOfQualifyingParents ==
    fd_pc # "call" =>
        /\ ChildrenAreSubfolders
        /\ \A d \in 1 .. Len(fd_tree) :
              Cardinality({i \in 1 .. Len(fd_folders) : fd_folders[i].path = d})
                  = IF IsValid(fd_tree, d) THEN 1 ELSE 0
        /\ \A c \in 0 .. Len(fd_folders) - 1 :
              LET d == fd_folders[c + 1].path
              IN  IF d # 1 /\ IsValid(fd_tree, fd_tree[d].parent)
                  THEN \E i \in c + 1 .. Len(fd_folders) - 1 :
                          /\ ParentsOf(c) = {i}
                          /\ fd_folders[i + 1].path = fd_tree[d].parent
                  ELSE ParentsOf(c) = {}

\* under a root that is no folder, a folder with one subfolder: the
\* subfolder is its child, the folder itself is in no children list
C22_Witness ==
    /\ fd_pc = "built"
    /\ Len(fd_tree) = 3 /\ ~IsValid(fd_tree, 1)
    /\ fd_tree[2].parent = 1 /\ fd_tree[3].parent = 2
    /\ fd_folders = <<[path |-> 3, children |-> <<>>], [path |-> 2, children |-> <<0>>]>>

(***************************************************************************)
(* Part 5.  The thread forest                                              *)
(*                                                                         *)
(* The listings (ui/src/components/mail/listing/mailbox_view.rs and        *)
(* src/components/mail/listing/thread.rs) read the forest through          *)
(* roots(), thread_nodes(), children(), message() and                      *)
(* threads_group_iter().  The engine that builds the forest is             *)
(* melib's thread module; it is modelled here after its specification:     *)
(* an id table filled per envelope from References and In-Reply-To, then   *)
(* root collection, pruning of empty containers and the subject union.     *)
(***************************************************************************)

\* the Message-IDs of the envelopes of the mailbox, and one of a message the
\* mailbox does not hold
MsgIds == {"a", "b", "c"}
NodeIds == MsgIds \cup {"m"}

\* no node (ThreadNode::parent of a root, an absent In-Reply-To)
NoNode == ""

\* a node that is not in the table
Absent == [present |-> FALSE, message |-> FALSE, parent |-> NoNode, children |-> <<>>]

\* sequences without repetition over S of length at most n
RECURSIVE PathsUpTo(_, _)
PathsUpTo(S, n) ==
    IF n = 0 THEN {<<>>}
    ELSE LET shorter == PathsUpTo(S, n - 1)
         IN  shorter \cup {Append(q, x) : q \in shorter, x \in S}

NoRepeat(q) == \A i, j \in 1 .. Len(q) : q[i] = q[j] => i = j

\* subjects of the envelopes
Subjects == {<<>>, <<"M">>, <<"R", "e", ":", " ", "M">>,
             <<"F", "w", "d", ":", " ", "R", "e", ":", " ", " ", "M">>, <<"[", "l", "]", " ", "N">>}

\* the envelope of id with default headers
PlainEnvelope(id) ==
    [references |-> <<>>, in_reply_to |-> NoNode, subject |-> <<>>,
     date |-> CASE id = "a" -> 1 [] id = "b" -> 2 [] OTHER -> 3]

\* mailboxes whose envelopes differ in References (c alone names the
\* message the mailbox does not hold),
RefInputs ==
    {e \in [MsgIds -> [references : PathsUpTo(NodeIds, MaxRefs), in_reply_to : {NoNode},
                       subject : {<<>>}, date : 1 .. 3]] :
        \A id \in MsgIds : /\ e[id].date = PlainEnvelope(id).date
                           /\ NoRepeat(e[id].references)
                           /\ \A k \in 1 .. Len(e[id].references) :
                                 /\ e[id].references[k] # id
                                 /\ e[id].references[k] \in MsgIds \/ id = "c"}

\* in References of one entry and In-Reply-To (a and b),
ReplyInputs ==
    {e \in [MsgIds -> [references : PathsUpTo(NodeIds, 1), in_reply_to : NodeIds \cup {NoNode},
                       subject : {<<>>}, date : 1 .. 3]] :
        /\ e["c"] = PlainEnvelope("c")
        /\ \A id \in MsgIds : e[id].date = PlainEnvelope(id).date /\ e[id].in_reply_to # id}

\* or in subject and date
SubjectInputs ==
    {e \in [MsgIds -> [references : {<<>>}, in_reply_to : {NoNode},
                       subject : Subjects, date : 1 .. 3]] :
        \A i, j \in MsgIds : e[i].date = e[j].date => i = j}

RECURSIVE IsAncestor(_, _, _, _)
\* p is on the parent chain of c, looking `fuel' links up
IsAncestor(nodes, p, c, fuel) ==
    IF fuel = 0 \/ nodes[c].parent = NoNode THEN FALSE
    ELSE nodes[c].parent = p \/ IsAncestor(nodes, p, nodes[c].parent, fuel - 1)

\* q without the entries equal to x
Without(q, x) == SelectSeq(q, LAMBDA y : y # x)

\* the node of id, created as a phantom when missing
Ensure(nodes, id) == [nodes EXCEPT ![id].present = TRUE]

\* c made a child of p, whatever the chains say
Reparent(nodes, p, c) ==
    LET old == nodes[c].parent
        cut == IF old = NoNode THEN nodes
               ELSE [nodes EXCEPT ![old].children = Without(@, c)]
    IN  [cut EXCEPT ![c].parent = p, ![p].children = Append(@, c)]

\* a mutation of Link that does not look for cycles
Link_NoCycleCheck(nodes, p, c) ==
    IF p = c \/ IsAncestor(nodes, p, c, Cardinality(NodeIds)) THEN nodes
    ELSE Reparent(nodes, p, c)

\* step 1: c linked as a child of p, unless that closes a cycle or p is
\* already on the parent chain of c
Link(nodes, p, c) ==
    IF \/ p = c
       \/ IsAncestor(nodes, c, p, Cardinality(NodeIds))
       \/ IsAncestor(nodes, p, c, Cardinality(NodeIds))
    THEN nodes
    ELSE Reparent(nodes, p, c)

RECURSIVE LinkChain(_, _)
\* step 1: the walk of a References chain, oldest first
LinkChain(nodes, chain) ==
    IF Len(chain) < 2 THEN nodes
    ELSE LinkChain(Link(Ensure(Ensure(nodes, chain[1]), chain[2]), chain[1], chain[2]),
                   Tail(chain))

\* a mutation of InsertNode that hangs the message below the first entry of
\* its References
InsertNode_FirstRef(nodes, id, env) ==
    LET mine == [Ensure(nodes, id) EXCEPT ![id].message = TRUE]
    IN  IF env.references = <<>> THEN mine
        ELSE Link(Ensure(LinkChain(mine, env.references), env.references[1]),
                  env.references[1], id)

\* steps 1 and 2 for the envelope env of Message-ID id
InsertNode(nodes, id, env) ==
    LET mine == [Ensure(nodes, id) EXCEPT ![id].message = TRUE]
        walked == LinkChain(mine, Append(env.references, id))
        irt == env.in_reply_to
        last == IF env.references = <<>> THEN NoNode
                ELSE env.references[Len(env.references)]
    IN  IF /\ irt # NoNode /\ irt # last /\ irt # id
           /\ ~IsAncestor(walked, id, irt, Cardinality(NodeIds))
           /\ walked[id].parent # irt
        THEN Reparent(Ensure(walked, irt), irt, id)
        ELSE walked

\* invariant (c) on remove: a node with children stays as a phantom, a leaf
\* is deleted
RemoveNode(nodes, id) ==
    IF nodes[id].children # <<>> THEN [nodes EXCEPT ![id].message = FALSE]
    ELSE LET old == nodes[id].parent
             cut == IF old = NoNode THEN nodes
                    ELSE [nodes EXCEPT ![old].children = Without(@, id)]
         IN  [cut EXCEPT ![id] = Absent]

\* a mutation of the descent that reads the message of the root only
RootMessage_NoDescent(nodes, root) == IF nodes[root].message THEN root ELSE NoNode

RECURSIVE RootMessage(_, _)
\* the message a listing shows for a root: its own, or that of the first
\* node with one on the chain of first children; NoNode stands for the
\* out-of-bounds children()[0] of a childless phantom
RootMessage(nodes, root) ==
    IF nodes[root].message THEN root
    ELSE IF nodes[root].children = <<>> THEN NoNode
    ELSE RootMessage(nodes, nodes[root].children[1])

RECURSIVE Prune(_)
\* step 4: childless phantoms removed, phantoms with one child replaced by it
Prune(nodes) ==
    LET empty == {n \in NodeIds : /\ nodes[n].present /\ ~nodes[n].message
                                  /\ Len(nodes[n].children) <= 1}
    IN  IF empty = {} THEN nodes
        ELSE LET n == CHOOSE x \in empty : TRUE
                 up == nodes[n].parent
                 kids == nodes[n].children
                 lifted == IF kids = <<>> THEN nodes
                           ELSE [nodes EXCEPT ![kids[1]].parent = up]
                 swapped == IF up = NoNode THEN lifted
                            ELSE [lifted EXCEPT ![up].children =
                                     [k \in 1 .. Len(@) |-> IF @[k] = n /\ kids # <<>>
                                                            THEN kids[1] ELSE @[k]]]
                 cut == IF up # NoNode /\ kids = <<>>
                        THEN [swapped EXCEPT ![up].children = Without(@, n)]
                        ELSE swapped
             IN  Prune([cut EXCEPT ![n] = Absent])

\* step 3: the nodes without a parent
RootSet(nodes) == {n \in NodeIds : nodes[n].present /\ nodes[n].parent = NoNode}

\* a mutation of BaseSubject that strips nothing
BaseSubject_NoStrip(subj) == subj

RECURSIVE BaseSubject(_)
\* the subject without leading Re:, Fwd:, [tag] and blanks
BaseSubject(subj) ==
    IF subj = <<>> THEN <<>>
    ELSE IF Head(subj) = " " THEN BaseSubject(Tail(subj))
    ELSE IF StartsWith(subj, <<"R", "e", ":">>) THEN BaseSubject(SliceFrom(subj, 3))
    ELSE IF StartsWith(subj, <<"F", "w", "d", ":">>) THEN BaseSubject(SliceFrom(subj, 4))
    ELSE IF Head(subj) = "[" /\ Find(subj, <<"]">>) # None
         THEN BaseSubject(SliceFrom(subj, Find(subj, <<"]">>) + 1))
    ELSE subj

\* date and base subject of a root: those of the message shown for it
RootDate(envs, nodes, r) ==
    IF RootMessage(nodes, r) = NoNode THEN 0 ELSE envs[RootMessage(nodes, r)].date
RootSubject(envs, nodes, r) ==
    IF RootMessage(nodes, r) = NoNode THEN <<>>
    ELSE BaseSubject(envs[RootMessage(nodes, r)].subject)

\* the set S of roots as a sequence, by the rank each has in S
Ranked(S, rank(_)) ==
    [i \in 1 .. Cardinality(S) |->
        CHOOSE r \in S : Cardinality({q \in S : rank(q) < rank(r)}) = i - 1]

\* step 5: every root with the non-empty base subject of an older root
\* becomes a child of the oldest such root, older ones first
SubjectUnion(envs, nodes) ==
    LET roots == RootSet(nodes)
        date(r) == RootDate(envs, nodes, r)
        leader(r) ==
            IF RootSubject(envs, nodes, r) = <<>> THEN r
            ELSE CHOOSE l \in roots :
                    /\ RootSubject(envs, nodes, l) = RootSubject(envs, nodes, r)
                    /\ \A q \in roots :
                          RootSubject(envs, nodes, q) = RootSubject(envs, nodes, r)
                              => date(l) <= date(q)
        joined(l) == Ranked({r \in roots : r # l /\ leader(r) = l}, date)
    IN  [n \in NodeIds |->
            IF n \notin roots THEN nodes[n]
            ELSE IF leader(n) # n THEN [nodes[n] EXCEPT !.parent = leader(n)]
            ELSE [nodes[n] EXCEPT !.children = @ \o joined(n)]]

\* steps 3 to 6 on the id table: the forest, and its roots with the newest
\* first
BuildForest(envs, nodes) ==
    LET forest == SubjectUnion(envs, Prune(nodes))
        newest(r) == 0 - RootDate(envs, forest, r)
    IN  [nodes |-> forest, roots |-> Ranked(RootSet(forest), newest)]

RECURSIVE threads_group_iter(_, _, _)
\* Threads::threads_group_iter: depth first, (indentation, node, has_sibling)
threads_group_iter(nodes, siblings, indentation) ==
    IF siblings = <<>> THEN <<>>
    ELSE <<<<indentation, Head(siblings), Len(siblings) > 1>>>>
         \o threads_group_iter(nodes, nodes[Head(siblings)].children, indentation + 1)
         \o threads_group_iter(nodes, Tail(siblings), indentation)

InitThreads ==
    /\ EarlyIdle
    /\ FdIdle
    /\ SvIdle
    /\ LastIdle
    /\ th_envs \in RefInputs \cup ReplyInputs \cup SubjectInputs
    /\ th_in = {}
    /\ th_nodes = [n \in NodeIds |-> Absent]
    /\ th_built = FALSE
    /\ th_forest = <<>>
    /\ th_roots = <<>>

\* Mailbox::insert of the envelope id
InsertEnvelope(id) ==
    /\ id \notin th_in
    /\ th_in' = th_in \cup {id}
    /\ th_nodes' = InsertNode(th_nodes, id, th_envs[id])
    /\ th_built' = FALSE
    /\ th_forest' = <<>>
    /\ th_roots' = <<>>
    /\ UNCHANGED th_envs
    /\ UNCHANGED thOthers

\* Mailbox::remove of the envelope id
RemoveEnvelope(id) ==
    /\ id \in th_in
    /\ th_in' = th_in \ {id}
    /\ th_nodes' = RemoveNode(th_nodes, id)
    /\ th_built' = FALSE
    /\ th_forest' = <<>>
    /\ th_roots' = <<>>
    /\ UNCHANGED th_envs
    /\ UNCHANGED thOthers

\* the build the listing reads: roots collected, pruned, united by subject
BuildThreads ==
    /\ ~th_built
    /\ th_forest' = BuildForest(th_envs, th_nodes).nodes
    /\ th_roots' = BuildForest(th_envs, th_nodes).roots
    /\ th_built' = TRUE
    /\ UNCHANGED <<th_envs, th_in, th_nodes>>
    /\ UNCHANGED thOthers

NextThreads ==
    \/ \E id \in MsgIds : InsertEnvelope(id)
    \/ \E id \in MsgIds : RemoveEnvelope(id)
    \/ BuildThreads

SpecThreads == InitThreads /\ [][NextThreads]_vars

RECURSIVE ChainEnd(_, _, _)
\* the node at the end of the parent chain of n, `fuel' links up at most
ChainEnd(nodes, n, fuel) ==
    IF nodes[n].parent = NoNode \/ fuel = 0 THEN n
    ELSE ChainEnd(nodes, nodes[n].parent, fuel - 1)

\* the parent chain of every node of `nodes' ends at a node without parent
\* and does not come back to the node
Acyclic(nodes) ==
    \A n \in NodeIds :
        nodes[n].present =>
            /\ ~IsAncestor(nodes, n, n, Cardinality(NodeIds))
            /\ nodes[ChainEnd(nodes, n, Cardinality(NodeIds))].parent = NoNode
            /\ nodes[ChainEnd(nodes, n, Cardinality(NodeIds))].present

\* C23: whatever was inserted and removed, no node of the id table or of
\* the built forest is its own ancestor, and every parent chain ends at a
\* root.
C23_NoCycles == Acyclic(th_nodes) /\ (th_built => Acyclic(th_forest))

\* a and b name each other in References: after both were inserted one is
\* the child of the other and not the reverse
C23_Witness ==
    /\ th_envs["a"].references = <<"b">> /\ th_envs["b"].references = <<"a">>
    /\ th_in = {"a", "b"}
    /\ th_nodes["a"].parent = "b" /\ th_nodes["b"].parent = NoNode

\* C24: in a built forest every phantom has a child, and the descent along
\* first children that the listing makes from a root finds a message.
C24_PhantomsHaveChildren ==
    th_built =>
        /\ \A n \in NodeIds :
              (th_forest[n].present /\ ~th_forest[n].message) => th_forest[n].children # <<>>
        /\ \A k \in 1 .. Len(th_roots) :
              /\ RootMessage(th_forest, th_roots[k]) # NoNode
              /\ th_forest[RootMessage(th_forest, th_roots[k])].message

\* b and c both answer a, which is not inserted: a stays as a phantom root
\* above them
C24_Witness ==
    /\ th_built /\ th_in = {"b", "c"}
    /\ th_roots = <<"a">>
    /\ ~th_forest["a"].message /\ th_forest["a"].children = <<"b", "c">>

\* the mailbox of scenario S1
S1Envelopes ==
    [id \in MsgIds |->
        [PlainEnvelope(id) EXCEPT !.references = CASE id = "a" -> <<>>
                                                   [] id = "b" -> <<"a">>
                                                   [] OTHER -> <<"a", "b">>]]

\* C25: A without References, B naming A, C naming A and B: once the three
\* are inserted, in any order, the built forest has the root A alone, B
\* below A and C below B.
C25_ThreadingByReferences ==
    (th_envs = S1Envelopes /\ th_in = MsgIds /\ th_built) =>
        /\ th_roots = <<"a">>
        /\ threads_group_iter(th_forest, th_roots, 0)
              = << <<0, "a", FALSE>>, <<1, "b", FALSE>>, <<2, "c", FALSE>> >>
        /\ \A id \in {"b", "c"} :
              th_forest[id].parent = th_envs[id].references[Len(th_envs[id].references)]

\* the forest of S1, built
C25_Witness ==
    /\ th_envs = S1Envelopes /\ th_in = MsgIds /\ th_built
    /\ th_forest["c"].parent = "b" /\ th_forest["b"].children = <<"c">>

\* the subjects of the conversation "M"
TopicM == {<<"M">>, <<"R", "e", ":", " ", "M">>,
           <<"F", "w", "d", ":", " ", "R", "e", ":", " ", " ", "M">>}

\* the roots of the id table that hold a message about "M"
TopicRoots ==
    {r \in MsgIds : /\ th_nodes[r].present /\ th_nodes[r].message
                    /\ th_nodes[r].parent = NoNode /\ th_envs[r].subject \in TopicM}

\* C26: the build leaves the oldest of the root messages about one subject
\* as a root and makes every other one its child.
C26_SubjectUnion ==
    [][BuildThreads =>
          \A x, y \in TopicRoots :
              (x # y /\ \A q \in TopicRoots : th_envs[x].date <= th_envs[q].date)
                  => /\ th_forest'[y].parent = x
                     /\ th_forest'[x].parent = NoNode
                     /\ \E k \in 1 .. Len(th_roots') : th_roots'[k] = x
                     /\ \A k \in 1 .. Len(th_roots') : th_roots'[k] # y]_vars

\* X "M" and the newer Y "Re: M", no References: Y is the child of X
C26_Witness ==
    /\ th_built /\ th_in = {"a", "b"}
    /\ th_envs["a"].subject = <<"M">> /\ th_envs["b"].subject = <<"R", "e", ":", " ", "M">>
    /\ th_envs["a"].date < th_envs["b"].date
    /\ th_envs["a"].references = <<>> /\ th_envs["b"].references = <<>>
    /\ th_roots = <<"a">> /\ th_forest["a"].children = <<"b">> /\ th_forest["b"].parent = "a"

(***************************************************************************)
(* Part 6.  The sieve parser (melib/src/sieve.rs, mod parser)              *)
(*                                                                         *)
(* A parser maps an input to [ok, panic, rest, val].  The combinators of   *)
(* crate::parsec (map, pair, left, right, either, delimited, opt,          *)
(* zero_or_more, separated_list0, is_a, pred, match_literal) are applied   *)
(* in place, each as its name says; the permutation! macro is modelled     *)
(* after its specification.  NUL is not among the bytes of the inputs.     *)
(***************************************************************************)

POk(rest, val) == [ok |-> TRUE, panic |-> FALSE, rest |-> rest, val |-> val]
PErr(input) == [ok |-> FALSE, panic |-> FALSE, rest |-> input, val |-> <<>>]
\* an index out of bounds
PPanic(input) == [ok |-> FALSE, panic |-> TRUE, rest |-> input, val |-> <<>>]

\* Option: None and Some(x)
NoneOpt == <<>>
Some(x) == <<x>>

UpperCase == <<"A", "B", "C", "D", "E", "F", "G", "H", "I", "J", "K", "L", "M", "N", "O", "P", "Q", "R", "S", "T", "U", "V", "W", "X", "Y", "Z">>
LowerCase == <<"a", "b", "c", "d", "e", "f", "g", "h", "i", "j", "k", "l", "m", "n", "o", "p", "q", "r", "s", "t", "u", "v", "w", "x", "y", "z">>

\* u8::to_ascii_lowercase
to_ascii_lowercase(c) ==
    IF \E i \in 1 .. 26 : UpperCase[i] = c
    THEN LowerCase[CHOOSE i \in 1 .. 26 : UpperCase[i] = c]
    ELSE c

\* match_literal_anycase: input starts with literal, letter case apart
StartsWithAnycase(input, literal) ==
    /\ Len(input) >= Len(literal)
    /\ \A k \in 1 .. Len(literal) :
          to_ascii_lowercase(input[k]) = to_ascii_lowercase(literal[k])

RECURSIVE eat_inner(_)
\* parser::eat_inner: input without leading blanks, # comments and
\* bracketed comments
eat_inner(input) ==
    IF input = <<>> THEN <<>>
    ELSE IF Head(input) \in {" ", "\t", "\n", "\r"} THEN eat_inner(Tail(input))
    ELSE IF Head(input) = "#"
         THEN LET nl == Find(input, <<"\n">>)
              IN  IF nl = None THEN <<>> ELSE eat_inner(SliceFrom(input, nl + 1))
    ELSE IF StartsWith(input, <<"/", "*">>)
         THEN LET close == Find(input, <<"*", "/">>)
              IN  IF close = None THEN <<>> ELSE eat_inner(SliceFrom(input, close + 2))
    ELSE input

\* the one element of a singleton: The({e(v) : v \in {r}}) is e of the
\* value of r
The(S) == CHOOSE out \in S : TRUE

\* the failure of a pair, right, left or delimited whose part r did not
\* accept: the whole fails on `input'
Fail(r, input) == IF r.panic THEN PPanic(input) ELSE PErr(input)

\* either: r when it accepted, or else the alternative
OrElse(r, alternative) ==
    The({IF v.ok \/ v.panic THEN v ELSE alternative : v \in {r}})

\* map to a fixed value
MapTo(r, val) == The({IF v.ok THEN POk(v.rest, val) ELSE v : v \in {r}})

\* parser::token: eat(match_literal_anycase(literal))
token(literal, input) ==
    The({IF StartsWithAnycase(start, literal)
         THEN POk(eat_inner(SliceFrom(start, Len(literal))), <<>>)
         ELSE PErr(input)
         : start \in {eat_inner(input)}})

RECURSIVE Replace(_, _, _)
\* str::replace: every occurrence of from, left to right
Replace(text, from, to) ==
    IF text = <<>> THEN <<>>
    ELSE IF StartsWith(text, from) THEN to \o Replace(SliceFrom(text, Len(from)), from, to)
    ELSE <<Head(text)>> \o Replace(Tail(text), from, to)

RECURSIVE QuotedOffset(_, _)
\* the loop of quoted_text from `offset' on: the offset it stops at, or
\* None for the index past the end of input.as_bytes()
QuotedOffset(input, offset) ==
    IF offset >= Len(input) THEN offset
    ELSE LET skip == /\ Len(input) >= offset + 2
                     /\ \/ StartsWith(input, <<"\r", "\n">>)
                        \/ StartsWith(input, <<"\\", "\"">>)
                        \/ StartsWith(input, <<"\\", "\\">>)
             at == IF skip THEN offset + 2 ELSE offset
         IN  IF at >= Len(input) THEN None
             ELSE IF input[at + 1] \in {"\r", "\n", "\"", "\\"} THEN at
             ELSE QuotedOffset(input, at + 1)

\* parser::string::quoted_text
quoted_text(input) ==
    LET offset == QuotedOffset(input, 0)
        unescape_dquote == StartsWith(input, <<"\\", "\"">>)
        unescape_slash == ~StartsWith(input, <<"\r", "\n">>) /\ ~unescape_dquote
                          /\ StartsWith(input, <<"\\", "\\">>)
        text == Slice(input, 0, offset)
    IN  IF offset = None THEN PPanic(input)
        ELSE IF unescape_dquote THEN POk(SliceFrom(input, offset), Replace(text, <<"\\", "\"">>, <<"\"">>))
        ELSE IF unescape_slash THEN POk(SliceFrom(input, offset), Replace(text, <<"\\", "\\">>, <<"\\">>))
        ELSE POk(SliceFrom(input, offset), text)

\* parser::string: delimited(token("\""), quoted_text(), token("\""))
string(input) ==
    The({IF ~open.ok THEN Fail(open, input) ELSE
    The({IF ~text.ok THEN Fail(text, input) ELSE
    The({IF ~close.ok THEN Fail(close, input) ELSE
         POk(close.rest, text.val)
         : close \in {token(<<"\"">>, text.rest)}})
         : text \in {quoted_text(open.rest)}})
         : open \in {token(<<"\"">>, input)}})

RECURSIVE DigitsLen(_)
\* is_a(b"0123456789"): the length of the leading run of digits
DigitsLen(input) ==
    IF input # <<>> /\ (\E d \in 0 .. 9 : Digit(d) = Head(input))
    THEN 1 + DigitsLen(Tail(input))
    ELSE 0

RECURSIVE ParseU64(_)
\* str::parse::<u64> of a run of digits
ParseU64(digits) ==
    IF digits = <<>> THEN 0
    ELSE 10 * ParseU64(Slice(digits, 0, Len(digits) - 1))
         + (CHOOSE d \in 0 .. 9 : Digit(d) = digits[Len(digits)])

\* the factor of a quantifier
Quantity(quant) ==
    CASE quant = "k" -> 1000 [] quant = "m" -> 1000000 [] quant = "g" -> 1000000000

\* parser::number: digits, then one of k, m, g in either case
number(input) ==
    LET n == DigitsLen(input)
    IN  IF n = 0 \/ Len(input) = n THEN PErr(input)
        ELSE IF to_ascii_lowercase(input[n + 1]) \in {"k", "m", "g"}
        THEN POk(SliceFrom(input, n + 1),
                 ParseU64(Slice(input, 0, n)) * Quantity(to_ascii_lowercase(input[n + 1])))
        ELSE PErr(input)

\* parser::parse_sieve_integer_operator
parse_sieve_integer_operator(input) ==
    The({IF ~which.ok THEN Fail(which, input) ELSE
    The({IF ~limit.ok THEN Fail(limit, input) ELSE
         POk(eat_inner(limit.rest), [operator |-> which.val, limit |-> limit.val])
         : limit \in {number(eat_inner(which.rest))}})
         : which \in {OrElse(MapTo(token(<<":", "o", "v", "e", "r">>, input), "Over"),
                             MapTo(token(<<":", "u", "n", "d", "e", "r">>, input), "Under"))}})

\* parser::parse_sieve_comparator
parse_sieve_comparator(input) ==
    The({IF ~name.ok THEN Fail(name, input) ELSE
    The({IF ~s.ok THEN Fail(s, input)
         ELSE IF s.val = <<"i", ";", "o", "c", "t", "e", "t">> THEN POk(eat_inner(s.rest), "Octet")
         ELSE IF s.val = <<"i", ";", "a", "s", "c", "i", "i", "-", "c", "a", "s", "e", "m", "a", "p">> THEN POk(eat_inner(s.rest), "AsciiCasemap")
         ELSE PErr(input)
         : s \in {string(eat_inner(name.rest))}})
         : name \in {token(<<":", "c", "o", "m", "p", "a", "r", "a", "t", "o", "r">>, input)}})

\* parser::parse_sieve_match_type
parse_sieve_match_type(input) ==
    OrElse(MapTo(token(<<":", "i", "s">>, input), "Is"),
    OrElse(MapTo(token(<<":", "c", "o", "n", "t", "a", "i", "n", "s">>, input), "Contains"),
           MapTo(token(<<":", "m", "a", "t", "c", "h", "e", "s">>, input), "Matches")))

\* parser::parse_sieve_address_type
parse_sieve_address_type(input) ==
    OrElse(MapTo(token(<<":", "l", "o", "c", "a", "l", "p", "a", "r", "t">>, input), "Localpart"),
    OrElse(MapTo(token(<<":", "d", "o", "m", "a", "i", "n">>, input), "Domain"),
           MapTo(token(<<":", "a", "l", "l">>, input), "All")))

RECURSIVE StringsAfter(_, _)
\* separated_list0(string(), eat(token(",")), false) after a first string:
\* the strings that follow, each behind a comma
StringsAfter(input, acc) ==
    The({IF ~comma.ok THEN POk(input, acc) ELSE
    The({IF s.ok THEN StringsAfter(s.rest, Append(acc, s.val))
         ELSE IF s.panic THEN PPanic(input)
         ELSE POk(input, acc)
         : s \in {string(comma.rest)}})
         : comma \in {token(<<",">>, input)}})

\* separated_list0(string(), eat(token(",")), false)
Strings(input) ==
    The({IF first.ok THEN StringsAfter(first.rest, <<first.val>>)
         ELSE IF first.panic THEN PPanic(input)
         ELSE POk(input, <<>>)
         : first \in {string(input)}})

\* parser::string_list
string_list(input) ==
    OrElse(The({IF ~open.ok THEN Fail(open, input) ELSE
           The({IF ~list.ok THEN Fail(list, input) ELSE
           The({IF ~close.ok THEN Fail(close, input) ELSE
                POk(close.rest, list.val)
                : close \in {token(<<"]">>, list.rest)}})
                : list \in {Strings(open.rest)}})
                : open \in {token(<<"[">>, input)}}),
           The({IF single.ok THEN POk(single.rest, <<single.val>>) ELSE single
                : single \in {string(input)}}))

\* the parser of one field of a permutation
QualifierParser(field, input) ==
    CASE field = "comparator" -> parse_sieve_comparator(input)
      [] field = "match_type" -> parse_sieve_match_type(input)
      [] field = "address_type" -> parse_sieve_address_type(input)

RECURSIVE PermutationPass(_, _, _)
\* one pass of the permutation over the fields `fields', in their order:
\* a field that is not set yet takes its qualifier when the input starts
\* with it.  st = [vals, rest, panic]
PermutationPass(fields, st, k) ==
    IF k > Len(fields) \/ st.panic THEN st
    ELSE IF st.vals[k] # NoneOpt THEN PermutationPass(fields, st, k + 1)
    ELSE The({IF r.ok
              THEN PermutationPass(fields, [vals |-> [st.vals EXCEPT ![k] = Some(r.val)],
                                            rest |-> r.rest, panic |-> FALSE], k + 1)
              ELSE IF r.panic THEN [st EXCEPT !.panic = TRUE]
              ELSE PermutationPass(fields, st, k + 1)
              : r \in {QualifierParser(fields[k], st.rest)}})

\* a mutation of the permutation that makes one pass only
permutation_OnePass(fields, st) == PermutationPass(fields, st, 1)

RECURSIVE permutation(_, _)
\* crate::permutation!: passes over the fields until one consumes nothing;
\* every field is set at most once
permutation(fields, st) ==
    The({IF next = st THEN st ELSE permutation(fields, next)
         : next \in {PermutationPass(fields, st, 1)}})

\* the fields of a permutation, none set, in front of input
Unset(fields, input) ==
    [vals |-> [k \in 1 .. Len(fields) |-> NoneOpt], rest |-> input, panic |-> FALSE]

\* parser::parse_sieve_header
parse_sieve_header(input) ==
    The({IF ~name.ok THEN Fail(name, input) ELSE
    The({IF quals.panic THEN PPanic(input) ELSE
    The({IF ~header_names.ok THEN Fail(header_names, input) ELSE
    The({IF ~key_list.ok THEN Fail(key_list, input) ELSE
         POk(eat_inner(key_list.rest),
             [test |-> "Header", comparator |-> quals.vals[1],
              match_operator |-> quals.vals[2],
              header_names |-> header_names.val, key_list |-> key_list.val])
         : key_list \in {string_list(eat_inner(header_names.rest))}})
         : header_names \in {string_list(eat_inner(quals.rest))}})
         : quals \in {permutation(<<"comparator", "match_type">>,
                                  Unset(<<"comparator", "match_type">>, name.rest))}})
         : name \in {token(<<"h", "e", "a", "d", "e", "r">>, input)}})

\* parser::parse_sieve_address
parse_sieve_address(input) ==
    The({IF ~name.ok THEN Fail(name, input) ELSE
    The({IF quals.panic THEN PPanic(input) ELSE
    The({IF ~header_list.ok THEN Fail(header_list, input) ELSE
    The({IF ~key_list.ok THEN Fail(key_list, input) ELSE
         POk(eat_inner(key_list.rest),
             [test |-> "Address", comparator |-> quals.vals[2],
              address_part |-> quals.vals[3], match_type |-> quals.vals[1],
              header_list |-> header_list.val, key_list |-> key_list.val])
         : key_list \in {string_list(eat_inner(header_list.rest))}})
         : header_list \in {string_list(eat_inner(quals.rest))}})
         : quals \in {permutation(<<"match_type", "comparator", "address_type">>,
                                  Unset(<<"match_type", "comparator", "address_type">>,
                                        name.rest))}})
         : name \in {token(<<"a", "d", "d", "r", "e", "s", "s">>, input)}})

RECURSIVE parse_sieve_test(_)
RECURSIVE TestsAfter(_, _)
RECURSIVE test_list(_)
RECURSIVE RulesFrom(_, _)
RECURSIVE parse_sieve_block(_)
RECURSIVE parse_sieve_if_bare(_)
RECURSIVE parse_sieve_if(_)
RECURSIVE parse_sieve_rule(_)

\* parser::parse_sieve_test
parse_sieve_test(input) ==
    OrElse(MapTo(token(<<"t", "r", "u", "e">>, input), [test |-> "Literal", value |-> TRUE]),
    OrElse(MapTo(token(<<"f", "a", "l", "s", "e">>, input), [test |-> "Literal", value |-> FALSE]),
    OrElse(The({IF ~exists.ok THEN Fail(exists, input) ELSE
           The({IF ~names.ok THEN Fail(names, input) ELSE
                POk(eat_inner(names.rest), [test |-> "Exists", names |-> names.val])
                : names \in {string_list(eat_inner(exists.rest))}})
                : exists \in {token(<<"e", "x", "i", "s", "t", "s">>, input)}}),
    OrElse(The({IF ~size.ok THEN Fail(size, input) ELSE
           The({IF ~limit.ok THEN Fail(limit, input) ELSE
                POk(limit.rest, [test |-> "Size", operator |-> limit.val.operator,
                                 limit |-> limit.val.limit])
                : limit \in {parse_sieve_integer_operator(size.rest)}})
                : size \in {token(<<"s", "i", "z", "e">>, input)}}),
    OrElse(The({IF ~not.ok THEN Fail(not, input) ELSE
           The({IF ~negated.ok THEN Fail(negated, input) ELSE
                POk(negated.rest, [test |-> "Not", of |-> negated.val])
                : negated \in {parse_sieve_test(not.rest)}})
                : not \in {token(<<"n", "o", "t">>, input)}}),
    OrElse(parse_sieve_header(input),
    OrElse(parse_sieve_address(input),
    OrElse(The({IF ~allof.ok THEN Fail(allof, input) ELSE
           The({IF ~all.ok THEN Fail(all, input) ELSE
                POk(all.rest, [test |-> "AllOf", tests |-> all.val])
                : all \in {test_list(allof.rest)}})
                : allof \in {token(<<"a", "l", "l", "o", "f">>, input)}}),
           The({IF ~anyof.ok THEN Fail(anyof, input) ELSE
           The({IF ~any.ok THEN Fail(any, input) ELSE
                POk(any.rest, [test |-> "AnyOf", tests |-> any.val])
                : any \in {test_list(anyof.rest)}})
                : anyof \in {token(<<"a", "n", "y", "o", "f">>, input)}})))))))))

\* separated_list0(eat(parse_sieve_test()), eat(token(",")), false) after a
\* first test
TestsAfter(input, acc) ==
    The({IF ~comma.ok THEN POk(input, acc) ELSE
    The({IF t.ok THEN TestsAfter(eat_inner(t.rest), Append(acc, t.val))
         ELSE IF t.panic THEN PPanic(input)
         ELSE POk(input, acc)
         : t \in {parse_sieve_test(eat_inner(comma.rest))}})
         : comma \in {token(<<",">>, input)}})

\* parser::test_list
test_list(input) ==
    The({IF ~open.ok THEN Fail(open, input) ELSE
    The({IF ~list.ok THEN Fail(list, input) ELSE
    The({IF ~close.ok THEN Fail(close, input) ELSE
         POk(close.rest, list.val)
         : close \in {token(<<")">>, list.rest)}})
         : list \in {The({IF first.ok
                          THEN TestsAfter(eat_inner(first.rest), <<first.val>>)
                          ELSE IF first.panic THEN PPanic(input)
                          ELSE POk(open.rest, <<>>)
                          : first \in {parse_sieve_test(eat_inner(open.rest))}})}})
         : open \in {token(<<"(">>, input)}})

\* parse_action!: the literal, then ";", blanks and comments around both
ParseAction(literal, input) ==
    The({IF word.ok /\ StartsWith(word.rest, <<";">>)
         THEN POk(eat_inner(Tail(word.rest)), <<>>)
         ELSE PErr(input)
         : word \in {token(literal, input)}})

\* parser::parse_sieve_rule
parse_sieve_rule(input) ==
    OrElse(MapTo(ParseAction(<<"s", "t", "o", "p">>, input), [rule |-> "Stop"]),
    OrElse(MapTo(ParseAction(<<"k", "e", "e", "p">>, input), [rule |-> "Keep"]),
    OrElse(MapTo(ParseAction(<<"d", "i", "s", "c", "a", "r", "d">>, input), [rule |-> "Discard"]),
           parse_sieve_if(input))))

\* zero_or_more(parse_sieve_rule()): the rules up to the first text that is
\* no rule
RulesFrom(input, acc) ==
    The({IF r.ok THEN RulesFrom(eat_inner(r.rest), Append(acc, r.val))
         ELSE IF r.panic THEN PPanic(input)
         ELSE POk(input, acc)
         : r \in {parse_sieve_rule(eat_inner(input))}})

\* parser::parse_sieve_block
parse_sieve_block(input) ==
    The({IF ~open.ok THEN Fail(open, input) ELSE
    The({IF ~rules.ok THEN Fail(rules, input) ELSE
    The({IF ~close.ok THEN Fail(close, input) ELSE
         POk(close.rest, rules.val)
         : close \in {token(<<"}">>, rules.rest)}})
         : rules \in {RulesFrom(open.rest, <<>>)}})
         : open \in {token(<<"{">>, input)}})

\* `keyword' test block, as a (test, block) pair
Branch(keyword, input) ==
    The({IF ~word.ok THEN Fail(word, input) ELSE
    The({IF ~cond.ok THEN Fail(cond, input) ELSE
    The({IF ~block.ok THEN Fail(block, input) ELSE
         POk(eat_inner(block.rest), <<cond.val, block.val>>)
         : block \in {parse_sieve_block(eat_inner(cond.rest))}})
         : cond \in {parse_sieve_test(eat_inner(word.rest))}})
         : word \in {token(keyword, input)}})

\* parser::parse_sieve_if_bare
parse_sieve_if_bare(input) ==
    The({IF ~if.ok THEN Fail(if, input) ELSE
         OrElse(The({IF ~elsif.ok THEN Fail(elsif, input) ELSE
                     POk(elsif.rest, [rule |-> "If", condition |-> if.val,
                                      elsif |-> Some(elsif.val), else_ |-> NoneOpt])
                     : elsif \in {Branch(<<"e", "l", "s", "i", "f">>, if.rest)}}),
                POk(if.rest, [rule |-> "If", condition |-> if.val,
                              elsif |-> NoneOpt, else_ |-> NoneOpt]))
         : if \in {Branch(<<"i", "f">>, input)}})

\* a mutation of parse_sieve_if that reads no else
parse_sieve_if_NoElse(input) == parse_sieve_if_bare(input)

\* parser::parse_sieve_if
parse_sieve_if(input) ==
    The({IF ~ifbare.ok THEN ifbare ELSE
         OrElse(The({IF ~else.ok THEN Fail(else, input) ELSE
                The({IF ~block.ok THEN Fail(block, input) ELSE
                     POk(eat_inner(block.rest),
                         [ifbare.val EXCEPT !.else_ = Some(block.val)])
                     : block \in {parse_sieve_block(eat_inner(else.rest))}})
                     : else \in {token(<<"e", "l", "s", "e">>, ifbare.rest)}}),
                ifbare)
         : ifbare \in {parse_sieve_if_bare(input)}})

\* parser::parse_sieve
parse_sieve(input) ==
    The({IF rules.panic THEN rules ELSE POk(eat_inner(rules.rest), rules.val)
         : rules \in {RulesFrom(eat_inner(input), <<>>)}})

\* the words, one blank between two
RECURSIVE Join(_)
Join(words) ==
    IF words = <<>> THEN <<>>
    ELSE IF Len(words) = 1 THEN words[1]
    ELSE words[1] \o <<" ">> \o Join(Tail(words))

\* quoted strings whose text holds letters, backslashes and double quotes
StringInputs ==
    {<<"\"">> \o body \o <<"\"">> : body \in SeqsUpTo({"a", "\\", "\""}, MaxStrLen)}

\* no quantifier, or one in either case
Quantifiers == {<<>>, <<"k">>, <<"K">>, <<"m">>, <<"M">>, <<"g">>, <<"G">>}

\* the integers written in front of quantifier q (products stay below 2^31)
NumbersFor(q) == IF q \in {<<"g">>, <<"G">>} THEN 0 .. 2 ELSE 0 .. MaxNumber

NumberInputs == UNION {{ToString(n) \o q : n \in NumbersFor(q)} : q \in Quantifiers}

\* the text of a qualifier
QualifierText(q) ==
    CASE q = "comparator" -> <<":", "c", "o", "m", "p", "a", "r", "a", "t", "o", "r", " ", "\"", "i", ";", "o", "c", "t", "e", "t", "\"">>
      [] q = "is" -> <<":", "i", "s">>
      [] q = "contains" -> <<":", "c", "o", "n", "t", "a", "i", "n", "s">>
      [] q = "domain" -> <<":", "D", "O", "M", "A", "I", "N">>

\* a header and an address test with the qualifiers qs, in that order
HeaderText(qs) ==
    Join(<<<<"h", "e", "a", "d", "e", "r">>>> \o [k \in 1 .. Len(qs) |-> QualifierText(qs[k])]
         \o <<<<"\"", "S", "u", "b", "j", "e", "c", "t", "\"">>, <<"\"", "M", "A", "K", "E", " ", "M", "O", "N", "E", "Y", " ", "F", "A", "S", "T", "\"">>>>)
AddressText(qs) ==
    Join(<<<<"a", "d", "d", "r", "e", "s", "s">>>> \o [k \in 1 .. Len(qs) |-> QualifierText(qs[k])]
         \o <<<<"[", "\"", "F", "r", "o", "m", "\"", ",", " ", "\"", "T", "o", "\"", "]">>, <<"\"", "e", "x", "a", "m", "p", "l", "e", ".", "c", "o", "m", "\"">>>>)

HeaderQualifiers == {"comparator", "contains"}
AddressQualifiers == {"comparator", "is", "domain"}

TestInputs ==
    {HeaderText(qs) : qs \in SeqsUpTo(HeaderQualifiers, MaxQuals)}
    \cup {AddressText(qs) : qs \in SeqsUpTo(AddressQualifiers, MaxQuals)}

\* tests and blocks of the scripts, by name: their text and their tree
TestNames == {"true", "header"}
BlockNames == {"discard", "keep", "stop"}
TestText(t) ==
    IF t = "true" THEN <<"t", "r", "u", "e">> ELSE <<"h", "e", "a", "d", "e", "r", " ", ":", "c", "o", "n", "t", "a", "i", "n", "s", " ", "\"", "s", "u", "b", "j", "e", "c", "t", "\"", " ", "\"", "v", "i", "a", "g", "r", "a", "\"">>
BlockText(b) ==
    CASE b = "discard" -> <<"{", " ", "d", "i", "s", "c", "a", "r", "d", ";", " ", "}">>
      [] b = "keep" -> <<"{", " ", "k", "e", "e", "p", ";", " ", "}">>
      [] b = "stop" -> <<"{", "\n", "s", "t", "o", "p", " ", ";", "\n", "}">>
TestTree(t) ==
    IF t = "true" THEN [test |-> "Literal", value |-> TRUE]
    ELSE [test |-> "Header", comparator |-> NoneOpt, match_operator |-> Some("Contains"),
          header_names |-> <<<<"s", "u", "b", "j", "e", "c", "t">>>>, key_list |-> <<<<"v", "i", "a", "g", "r", "a">>>>]
BlockTree(b) ==
    CASE b = "discard" -> <<[rule |-> "Discard"]>>
      [] b = "keep" -> <<[rule |-> "Keep"]>>
      [] b = "stop" -> <<[rule |-> "Stop"]>>

\* an elsif branch (test, block) or none; an else block or none
ElsifChoices == {NoneOpt} \cup {Some(<<t, b>>) : t \in TestNames, b \in BlockNames}
ElseChoices == {NoneOpt} \cup {Some(b) : b \in BlockNames}

\* the if statement with these branches
ScriptText(t, b, elsif, else) ==
    Join(<<<<"i", "f">>, TestText(t), BlockText(b)>>
         \o (IF elsif = NoneOpt THEN <<>>
             ELSE <<<<"e", "l", "s", "i", "f">>, TestText(elsif[1][1]), BlockText(elsif[1][2])>>)
         \o (IF else = NoneOpt THEN <<>> ELSE <<<<"e", "l", "s", "e">>, BlockText(else[1])>>))

ScriptInputs ==
    {ScriptText(t, b, elsif, else) :
        t \in TestNames, b \in BlockNames, elsif \in ElsifChoices, else \in ElseChoices}

\* scripts whose last rule is no rule: rules that parse, then text that
\* does not
ValidRules == {<<>>, <<"k", "e", "e", "p", ";", " ">>, <<"k", "e", "e", "p", ";", " ", "d", "i", "s", "c", "a", "r", "d", ";", " ">>}
InvalidRules == {<<"b", "o", "g", "u", "s", ";">>, <<"k", "e", "e", "p">>, <<"i", "f", " ", "t", "r", "u", "e", " ", "{", " ", "k", "e", "e", "p", ";", " ">>, <<"i", "f", " ", "{", " ", "s", "t", "o", "p", ";", " ", "}">>}
BrokenScripts == {good \o bad : good \in ValidRules, bad \in InvalidRules}

InitSieve ==
    /\ EarlyIdle
    /\ FdIdle
    /\ ThIdle
    /\ LastIdle
    /\ \/ sv_kind = "string" /\ sv_input \in StringInputs
       \/ sv_kind = "number" /\ sv_input \in NumberInputs
       \/ sv_kind = "test" /\ sv_input \in TestInputs
       \/ sv_kind = "sieve" /\ sv_input \in ScriptInputs \cup BrokenScripts
    /\ sv_pc = "call"
    /\ sv_result = <<>>

\* string().parse(input)
ParseString ==
    /\ sv_pc = "call" /\ sv_kind = "string"
    /\ sv_result' = string(sv_input)
    /\ sv_pc' = "done"
    /\ UNCHANGED <<sv_kind, sv_input>>
    /\ UNCHANGED svOthers

\* number().parse(input)
ParseNumber ==
    /\ sv_pc = "call" /\ sv_kind = "number"
    /\ sv_result' = number(sv_input)
    /\ sv_pc' = "done"
    /\ UNCHANGED <<sv_kind, sv_input>>
    /\ UNCHANGED svOthers

\* parse_sieve_test().parse(input)
ParseTest ==
    /\ sv_pc = "call" /\ sv_kind = "test"
    /\ sv_result' = parse_sieve_test(sv_input)
    /\ sv_pc' = "done"
    /\ UNCHANGED <<sv_kind, sv_input>>
    /\ UNCHANGED svOthers

\* parse_sieve().parse(input)
ParseSieve ==
    /\ sv_pc = "call" /\ sv_kind = "sieve"
    /\ sv_result' = parse_sieve(sv_input)
    /\ sv_pc' = "done"
    /\ UNCHANGED <<sv_kind, sv_input>>
    /\ UNCHANGED svOthers

NextSieve == ParseString \/ ParseNumber \/ ParseTest \/ ParseSieve

SpecSieve == InitSieve /\ [][NextSieve]_vars

\* C27: an if statement with an optional elsif and an optional else parses
\* to one If rule holding the tests and blocks in source order, and the
\* whole input is consumed.
C27_IfElsifElse ==
    \A t \in TestNames, b \in BlockNames, elsif \in ElsifChoices, else \in ElseChoices :
        (sv_kind = "sieve" /\ sv_pc = "done" /\ sv_input = ScriptText(t, b, elsif, else))
            => /\ sv_result.ok
               /\ sv_result.rest = <<>>
               /\ sv_result.val =
                    <<[rule |-> "If",
                       condition |-> <<TestTree(t), BlockTree(b)>>,
                       elsif |-> IF elsif = NoneOpt THEN NoneOpt
                                 ELSE Some(<<TestTree(elsif[1][1]), BlockTree(elsif[1][2])>>),
                       else_ |-> IF else = NoneOpt THEN NoneOpt
                                 ELSE Some(BlockTree(else[1]))]>>

\* scenario S5, parsed
C27_Witness ==
    /\ sv_pc = "done"
    /\ sv_input = <<"i", "f", " ", "h", "e", "a", "d", "e", "r", " ", ":", "c", "o", "n", "t", "a", "i", "n", "s", " ", "\"", "s", "u", "b", "j", "e", "c", "t", "\"", " ", "\"", "v", "i", "a", "g", "r", "a", "\"", " ", "{", " ", "d", "i", "s", "c", "a", "r", "d", ";", " ", "}", " ", "e", "l", "s", "e", " ", "{", " ", "k", "e", "e", "p", ";", " ", "}">>
    /\ sv_result.ok /\ sv_result.rest = <<>>
    /\ sv_result.val =
         <<[rule |-> "If",
            condition |-> <<[test |-> "Header", comparator |-> NoneOpt,
                             match_operator |-> Some("Contains"),
                             header_names |-> <<<<"s", "u", "b", "j", "e", "c", "t">>>>, key_list |-> <<<<"v", "i", "a", "g", "r", "a">>>>],
                            <<[rule |-> "Discard"]>>>>,
            elsif |-> NoneOpt,
            else_ |-> Some(<<[rule |-> "Keep"]>>)]>>

\* the qualifiers of qs
Written(qs) == {qs[k] : k \in 1 .. Len(qs)}

\* C28: a header or address test whose qualifiers are written once each
\* parses to the same test in whatever order they stand; a qualifier
\* written twice is not consumed twice, and the test is rejected.
C28_QualifiersInAnyOrder ==
    /\ \A qs \in SeqsUpTo(HeaderQualifiers, MaxQuals) :
          (sv_kind = "test" /\ sv_pc = "done" /\ sv_input = HeaderText(qs)) =>
              IF NoRepeat(qs)
              THEN /\ sv_result.ok /\ sv_result.rest = <<>>
                   /\ sv_result.val =
                        [test |-> "Header",
                         comparator |-> IF "comparator" \in Written(qs)
                                        THEN Some("Octet") ELSE NoneOpt,
                         match_operator |-> IF "contains" \in Written(qs)
                                            THEN Some("Contains") ELSE NoneOpt,
                         header_names |-> <<<<"S", "u", "b", "j", "e", "c", "t">>>>,
                         key_list |-> <<<<"M", "A", "K", "E", " ", "M", "O", "N", "E", "Y", " ", "F", "A", "S", "T">>>>]
              ELSE ~sv_result.ok
    /\ \A qs \in SeqsUpTo(AddressQualifiers, MaxQuals) :
          (sv_kind = "test" /\ sv_pc = "done" /\ sv_input = AddressText(qs)) =>
              IF NoRepeat(qs)
              THEN /\ sv_result.ok /\ sv_result.rest = <<>>
                   /\ sv_result.val =
                        [test |-> "Address",
                         comparator |-> IF "comparator" \in Written(qs)
                                        THEN Some("Octet") ELSE NoneOpt,
                         address_part |-> IF "domain" \in Written(qs)
                                          THEN Some("Domain") ELSE NoneOpt,
                         match_type |-> IF "is" \in Written(qs) THEN Some("Is") ELSE NoneOpt,
                         header_list |-> <<<<"F", "r", "o", "m">>, <<"T", "o">>>>,
                         key_list |-> <<<<"e", "x", "a", "m", "p", "l", "e", ".", "c", "o", "m">>>>]
              ELSE ~sv_result.ok

\* the last permutation of test_sieve_parse_conditionals, parsed
C28_Witness ==
    /\ sv_pc = "done"
    /\ sv_input = <<"a", "d", "d", "r", "e", "s", "s", " ", ":", "i", "s", " ", ":", "c", "o", "m", "p", "a", "r", "a", "t", "o", "r", " ", "\"", "i", ";", "o", "c", "t", "e", "t", "\"", " ", ":", "D", "O", "M", "A", "I", "N", " ", "[", "\"", "F", "r", "o", "m", "\"", ",", " ", "\"", "T", "o", "\"", "]", " ", "\"", "e", "x", "a", "m", "p", "l", "e", ".", "c", "o", "m", "\"">>
    /\ sv_result.ok
    /\ sv_result.val.comparator = Some("Octet")
    /\ sv_result.val.address_part = Some("Domain")
    /\ sv_result.val.match_type = Some("Is")

\* C29 as stated: n parses to n, and n with K, M or G in either case to
\* n * 1000, n * 10^6 and n * 10^9.
C29_NumberWithOptionalSuffix ==
    \A q \in Quantifiers : \A n \in NumbersFor(q) :
        (sv_kind = "number" /\ sv_pc = "done" /\ sv_input = ToString(n) \o q)
            => /\ sv_result.ok
               /\ sv_result.val = n * (CASE q = <<>> -> 1
                                         [] q \in {<<"k">>, <<"K">>} -> 1000
                                         [] q \in {<<"m">>, <<"M">>} -> 1000000
                                         [] OTHER -> 1000000000)

RECURSIVE Escaped(_)
\* text with a backslash in front of every double quote and backslash
Escaped(text) ==
    IF text = <<>> THEN <<>>
    ELSE (IF Head(text) \in {"\"", "\\"} THEN <<"\\", Head(text)>> ELSE <<Head(text)>>)
         \o Escaped(Tail(text))

\* C30 as stated: the quoted, escaped form of a text parses to that text,
\* wherever the escapes stand.
C30_StringUnescapes ==
    \A text \in SeqsUpTo({"a", "\\", "\""}, MaxStrLen) :
        (/\ sv_kind = "string" /\ sv_pc = "done"
         /\ sv_input = <<"\"">> \o Escaped(text) \o <<"\"">>)
            => /\ sv_result.ok
               /\ sv_result.rest = <<>>
               /\ sv_result.val = text

\* C31 as stated: a script with a rule that is syntactically invalid does
\* not parse; parse_sieve returns an error.
C31_ParseErrorFailsScript ==
    (sv_kind = "sieve" /\ sv_pc = "done" /\ sv_input \in BrokenScripts)
        => ~sv_result.ok

(***************************************************************************)
(* Part 7.  ContentType::make_boundary                                     *)
(* (melib/src/email/attachment_types.rs 245-279)                           *)
(*                                                                         *)
(* gen_boundary() of email::compose::random returns a random string; it    *)
(* is any of Randoms at every call.                                        *)
(***************************************************************************)

\* "bzz_bzz__bzz__" (247)
BoundaryMarker == <<"b", "z", "z", "_", "b", "z", "z", "_", "_", "b", "z", "z", "_", "_">>

\* the 70 of boundary.truncate(70) (277)
BoundaryMax == 70

\* String::truncate
Truncate(s, n) == IF Len(s) > n THEN SubSeq(s, 1, n) ELSE s

\* what gen_boundary() may return
Randoms == {<<"a">>, <<"c">>, <<"a", "c">>}

\* the raw bytes of a part
PartRaws == {<<"x">>, <<"a">>, <<"c">>, <<"x", "a", "c", "x">>, BoundaryMarker \o <<"a">>, BoundaryMarker \o <<"a", "c">>}

InitBoundary ==
    /\ EarlyIdle
    /\ MidIdle
    /\ SgIdle
    /\ TlIdle
    /\ mb_parts \in SeqsUpTo(PartRaws, MaxParts)
    /\ mb_pc = "call"
    /\ mb_random = <<>> /\ mb_counter = 0 /\ mb_flag = FALSE /\ mb_sub = 0
    /\ mb_generated = 0 /\ mb_boundary = <<>>

\* lines 247-252: the first random_boundary, loop_counter, the first pass
EnterLoop ==
    /\ mb_pc = "call"
    /\ mb_random' \in Randoms
    /\ mb_generated' = 1
    /\ mb_counter' = LoopCounter
    /\ mb_flag' = TRUE
    /\ mb_sub' = 1
    /\ mb_pc' = "sub"
    /\ UNCHANGED <<mb_parts, mb_boundary>>
    /\ UNCHANGED mbOthers

\* a mutation of SubCollides that leaves flag alone
SubCollides_KeepFlag ==
    /\ mb_pc = "sub" /\ mb_sub <= Len(mb_parts)
    /\ Contains(mb_parts[mb_sub], mb_random)
    /\ mb_generated <= 2 * LoopCounter
    /\ mb_random' \in Randoms
    /\ mb_generated' = mb_generated + 1
    /\ UNCHANGED <<mb_parts, mb_pc, mb_counter, mb_sub, mb_boundary, mb_flag>>
    /\ UNCHANGED mbOthers

\* lines 255-257: sub holds random_boundary; another one is generated and
\* 'sub_loop goes round.  (The model follows a call up to
\* 2 * LoopCounter + 1 generated strings.)
SubCollides ==
    /\ mb_pc = "sub" /\ mb_sub <= Len(mb_parts)
    /\ Contains(mb_parts[mb_sub], mb_random)
    /\ mb_generated <= 2 * LoopCounter
    /\ mb_random' \in Randoms
    /\ mb_generated' = mb_generated + 1
    /\ mb_flag' = FALSE
    /\ UNCHANGED <<mb_parts, mb_pc, mb_counter, mb_sub, mb_boundary>>
    /\ UNCHANGED mbOthers

\* lines 258-260: break 'sub_loop, the next sub
SubClear ==
    /\ mb_pc = "sub" /\ mb_sub <= Len(mb_parts)
    /\ ~Contains(mb_parts[mb_sub], mb_random)
    /\ mb_sub' = mb_sub + 1
    /\ UNCHANGED <<mb_parts, mb_pc, mb_random, mb_counter, mb_flag, mb_generated,
                   mb_boundary>>
    /\ UNCHANGED mbOthers

\* lines 263-265 and 272-278: break 'loo, the boundary is put together
BreakLoo ==
    /\ mb_pc = "sub" /\ mb_sub > Len(mb_parts)
    /\ mb_flag
    /\ mb_boundary' = Truncate(BoundaryMarker \o mb_random, BoundaryMax)
    /\ mb_pc' = "done"
    /\ UNCHANGED <<mb_parts, mb_random, mb_counter, mb_flag, mb_sub, mb_generated>>
    /\ UNCHANGED mbOthers

\* lines 266-269 and 251: loop_counter goes down and is not 0, the next pass
NextPass ==
    /\ mb_pc = "sub" /\ mb_sub > Len(mb_parts)
    /\ ~mb_flag
    /\ mb_counter - 1 # 0
    /\ mb_counter' = mb_counter - 1
    /\ mb_flag' = TRUE
    /\ mb_sub' = 1
    /\ UNCHANGED <<mb_parts, mb_pc, mb_random, mb_generated, mb_boundary>>
    /\ UNCHANGED mbOthers

\* lines 266-269: loop_counter reaches 0, panic!
GiveUp ==
    /\ mb_pc = "sub" /\ mb_sub > Len(mb_parts)
    /\ ~mb_flag
    /\ mb_counter - 1 = 0
    /\ mb_counter' = 0
    /\ mb_pc' = "panic"
    /\ UNCHANGED <<mb_parts, mb_random, mb_flag, mb_sub, mb_generated, mb_boundary>>
    /\ UNCHANGED mbOthers

NextBoundary == EnterLoop \/ SubCollides \/ SubClear \/ BreakLoo \/ NextPass \/ GiveUp

SpecBoundary == InitBoundary /\ [][NextBoundary]_vars

C33_AtMostLoopCounterCandidates == mb_generated <= LoopCounter

(***************************************************************************)
(* Part 8.  SegmentTree (src/types.rs 186-244)                             *)
(*                                                                         *)
(* `tree` is a function on 0 .. max_size - 1; `array` a sequence, array[i] *)
(* of the source being sg_array[i + 1].                                    *)
(***************************************************************************)

RECURSIVE CeilLog2(_, _)
\* (n as f64).log2().ceil(): the least h >= from with 2^h >= n
CeilLog2(n, from) == IF 2 ^ from >= n THEN from ELSE CeilLog2(n, from + 1)

RECURSIVE FillInner(_, _)
\* lines 206-208: segment_tree[i] for i = from down to 1
FillInner(tree, from) ==
    IF from < 1 THEN tree
    ELSE FillInner([tree EXCEPT ![from] = IF tree[2 * from] >= tree[2 * from + 1]
                                         THEN tree[2 * from] ELSE tree[2 * from + 1]],
                   from - 1)

\* SegmentTree::new: the tree of val
NewTree(val) ==
    IF val = <<>> THEN <<>>
    ELSE LET n == Len(val)
             max_size == 2 * (2 ^ CeilLog2(n, 0))
             leaves == [i \in 0 .. max_size - 1 |->
                          IF i >= n /\ i < 2 * n THEN val[i - n + 1] ELSE 0]
         IN  FillInner(leaves, n - 1)

\* std::cmp::max
CmpMax(a, b) == IF a >= b THEN a ELSE b

RECURSIVE GetMaxLoop(_, _, _, _)
\* lines 225-238: the while loop of get_max
GetMaxLoop(tree, left, right, max) ==
    IF ~(left < right) THEN max
    ELSE LET max1 == IF left % 2 > 0 THEN CmpMax(max, tree[left]) ELSE max
             left1 == IF left % 2 > 0 THEN left + 1 ELSE left
             right1 == IF right % 2 > 0 THEN right - 1 ELSE right
             max2 == IF right % 2 > 0 THEN CmpMax(max1, tree[right1]) ELSE max1
         IN  GetMaxLoop(tree, left1 \div 2, right1 \div 2, max2)

\* a mutation of get_max that leaves the right bound out
get_max_Exclusive(array, tree, left, right) ==
    LET len == Len(array)
        r == IF right >= len THEN (IF len = 0 THEN 0 ELSE len - 1) ELSE right
    IN  GetMaxLoop(tree, left + len, r + len, 0)

\* SegmentTree::get_max
get_max(array, tree, left, right) ==
    LET len == Len(array)
        r == IF right >= len THEN (IF len = 0 THEN 0 ELSE len - 1) ELSE right
    IN  GetMaxLoop(tree, left + len, r + len + 1, 0)

InitSegment ==
    /\ EarlyIdle
    /\ MidIdle
    /\ MbIdle
    /\ TlIdle
    /\ sg_array \in UNION {[1 .. n -> 0 .. MaxVal] : n \in 1 .. MaxArrayLen}
    /\ sg_tree = <<>> /\ sg_pc = "call"
    /\ sg_left = 0 /\ sg_right = 0 /\ sg_max = 0

\* SegmentTree::new(val)
NewSegmentTree ==
    /\ sg_pc = "call"
    /\ sg_tree' = NewTree(sg_array)
    /\ sg_pc' = "built"
    /\ UNCHANGED <<sg_array, sg_left, sg_right, sg_max>>
    /\ UNCHANGED sgOthers

\* get_max(left, right), left <= right (line 219), right up to one past the
\* last element
GetMax ==
    /\ sg_pc = "built"
    /\ \E left \in 0 .. Len(sg_array) - 1 : \E right \in left .. Len(sg_array) :
          /\ sg_left' = left
          /\ sg_right' = right
          /\ sg_max' = get_max(sg_array, sg_tree, left, right)
    /\ sg_pc' = "done"
    /\ UNCHANGED <<sg_array, sg_tree>>
    /\ UNCHANGED sgOthers

NextSegment == NewSegmentTree \/ GetMax

SpecSegment == InitSegment /\ [][NextSegment]_vars

\* the elements of array[left ..= right], right clamped to the last one
Segment(array, left, right) ==
    {array[i + 1] : i \in left .. (IF right >= Len(array) THEN Len(array) - 1 ELSE right)}

\* C34: get_max(left, right) is the greatest element of array[left ..= right]
\* for arrays of every length, a right bound past the end standing for the
\* last element.
C34_GetMaxIsMaximum ==
    sg_pc = "done" =>
        /\ sg_max \in Segment(sg_array, sg_left, sg_right)
        /\ \A v \in Segment(sg_array, sg_left, sg_right) : v <= sg_max

\* an array of five elements, no power of two, asked for its middle
C34_Witness ==
    /\ sg_pc = "done"
    /\ sg_array = <<2, 0, 1, 0, 2>>
    /\ sg_left = 1 /\ sg_right = 3
    /\ sg_max = 1


(***************************************************************************)
(* Part 9.  ThreadListing (src/components/mail/listing/thread.rs)          *)
(*                                                                         *)
(* The list of one mailbox: redraw_threads_list builds the rows and the    *)
(* order map, draw and draw_list move the cursor and highlight rows,       *)
(* set_focus opens the entry under the cursor.  A handler is computed on   *)
(* a record of the fields of the ThreadListing; its pc is "run" until the  *)
(* handler panics.  The thread nodes `threads_group_iter` yields are an    *)
(* input: node i is a phantom, or holds the envelope of hash i, which      *)
(* matches the listing filter or does not.  Only the hash of a row and     *)
(* its place are kept of the row; the strings and cells are left out.      *)
(***************************************************************************)

\* a thread node: no message, or an envelope the filter query matches or not
NodeKinds == {"phantom", "match", "nomatch"}

\* what threads_group_iter may yield for the mailbox
Listings == SeqsUpTo(NodeKinds, MaxNodes)

\* what the load of the mailbox may give: an error, or its thread nodes
Loads == {[ok |-> FALSE, items |-> <<>>]} \cup [ok : {TRUE}, items : Listings]

\* PageMovement
Movements ==
    [kind : {"Up", "Down", "PageUp", "PageDown"}, n : 1 .. MaxAmount]
        \cup [kind : {"Home", "End", "Right"}, n : {0}]

\* HashMap::insert
Insert(order, hash, row) ==
    {e \in order : e.hash # hash} \cup {[hash |-> hash, row |-> row]}

RECURSIVE RedrawLoop(_, _, _, _, _)
\* the loop of redraw_threads_list from node i on (275-373): `order` gets
\* the envelope at idx before the filter is asked, a row is pushed and idx
\* incremented after; idx is rows.len() throughout
RedrawLoop(items, filter, i, order, rows) ==
    IF i > Len(items) THEN [order |-> order, rows |-> rows]
    ELSE IF items[i] = "phantom" THEN RedrawLoop(items, filter, i + 1, order, rows)
    ELSE IF filter /\ items[i] = "nomatch"
         THEN RedrawLoop(items, filter, i + 1, Insert(order, i, Len(rows)), rows)
         ELSE RedrawLoop(items, filter, i + 1, Insert(order, i, Len(rows)), Append(rows, i))

\* redraw_threads_list (225-407); its draw_rows (401-405) returns at once
\* (954), length being 0 until line 406
redraw_threads_list(l, items) ==
    IF items = <<>>
    THEN [l EXCEPT !.length = 0, !.order = {}, !.items = items, !.built = <<>>,
                   !.redrawn = TRUE]
    ELSE The({[l EXCEPT !.order = r.order, !.built = r.rows, !.items = items,
                        !.length = Cardinality(r.order), !.redrawn = TRUE]
              : r \in {RedrawLoop(items, l.filter, 1, {}, <<>>)}})

\* refresh_mailbox (154-223): `ok` is the result of the load of the mailbox
refresh_mailbox(l, items, ok) ==
    The({IF ok THEN redraw_threads_list(m, items)
         ELSE [m EXCEPT !.length = 0, !.redrawn = FALSE]
         : m \in {[l EXCEPT !.dirty = TRUE,
                            !.cursor = IF l.differ THEN 0 ELSE @,
                            !.new_cursor = IF l.differ THEN 0 ELSE @,
                            !.differ = FALSE]}})

\* get_env_under_cursor (892-902): the entry of `order` with this row, or a
\* panic
get_env_under_cursor(l, cursor) ==
    IF l.pc # "run" THEN l
    ELSE [l EXCEPT !.lookups = @ \cup {[cursor |-> cursor, length |-> l.length]},
                   !.pc = IF \E e \in l.order : e.row = cursor
                          THEN "run" ELSE "panic_no_row"]

\* highlight_line (705-729)
highlight_line(l, idx) == IF l.length = 0 THEN l ELSE get_env_under_cursor(l, idx)

\* usize::saturating_sub
SaturatingSub(a, b) == IF a > b THEN a - b ELSE 0

\* draw_list, `if let Some(mvm) = self.movement.take()` (440-472)
TakeMovement(l, rows) ==
    IF l.movement = <<>> THEN l
    ELSE [l EXCEPT
            !.movement = <<>>,
            !.new_cursor =
                CASE l.movement[1].kind = "Up" -> SaturatingSub(@, l.movement[1].n)
                  [] l.movement[1].kind = "PageUp" ->
                        SaturatingSub(@, rows * l.movement[1].n)
                  [] l.movement[1].kind = "Down" ->
                        IF @ + l.movement[1].n + 1 < l.length
                        THEN @ + l.movement[1].n ELSE l.length - 1
                  [] l.movement[1].kind = "PageDown" ->
                        IF @ + rows * l.movement[1].n + 1 < l.length
                        THEN @ + rows * l.movement[1].n
                        ELSE IF @ + rows * l.movement[1].n > l.length
                        THEN l.length - 1
                        ELSE (SaturatingSub(l.length, 1) \div rows) * rows
                  [] l.movement[1].kind = "Home" -> 0
                  [] l.movement[1].kind = "End" -> SaturatingSub(l.length, 1)
                  [] OTHER -> @]

\* draw_list from line 527 on, the page having changed: the cursor is put
\* on the last row when it is beyond it, the rows of the page are coloured
\* (620: `self.length - top_idx` overflows for a page beyond the list, and
\* where overflow is not checked the cells indexed are outside the
\* columns), the cursor row is highlighted (664-672)
DrawNewPage(l, top_idx) ==
    The({IF top_idx > c.length THEN [c EXCEPT !.pc = "panic_page"]
         ELSE highlight_line(c, c.cursor)
         : c \in {IF l.new_cursor >= l.length
                  THEN [l EXCEPT !.new_cursor = l.length - 1, !.cursor = l.length - 1]
                  ELSE l}})

\* draw_list from line 474 on: draw_rows (478-482, with its debug_assert!
\* of line 957), then either the highlight moves within the page (507-521) or
\* the page is drawn (522-end)
DrawPage(l, rows) ==
    LET prev_page_no == l.cursor \div rows
        page_no      == l.new_cursor \div rows
        top_idx      == page_no * rows
    IN  IF l.debug /\ top_idx > l.length - 1 THEN [l EXCEPT !.pc = "panic_assert"]
        ELSE IF l.cursor # l.new_cursor /\ prev_page_no = page_no
        THEN The({IF l.new_cursor >= l.length THEN c ELSE highlight_line(c, l.new_cursor)
                  : c \in {IF l.cursor >= l.length
                           THEN [l EXCEPT !.cursor = l.new_cursor]
                           ELSE highlight_line([l EXCEPT !.cursor = l.new_cursor],
                                               l.cursor)}})
        ELSE DrawNewPage([l EXCEPT !.cursor = l.new_cursor], top_idx)

\* draw_list (424-703) in an area of `rows` rows
draw_list(l, rows, items, ok) ==
    IF l.pc # "run" THEN l
    ELSE The({IF a.length = 0 \/ rows = 0 THEN a
              ELSE DrawPage(TakeMovement(a, rows), rows)
              : a \in {IF l.differ THEN refresh_mailbox(l, items, ok) ELSE l}})

\* Component::draw (1117-1251), the list getting `rows` rows of the area
draw(l, rows, items, ok) ==
    IF ~l.dirty THEN l
    ELSE IF l.focus = "EntryFullscreen" /\ l.view THEN l
    ELSE IF l.focus = "None" THEN draw_list([l EXCEPT !.dirty = FALSE], rows, items, ok)
    ELSE The({IF a.length = 0 THEN a
              ELSE The({IF c.pc # "run" THEN c
                        ELSE IF c.length = 0 THEN [c EXCEPT !.dirty = FALSE]
                        ELSE IF ~c.dirty THEN c
                        ELSE The({IF e.pc # "run" THEN e
                                  ELSE [e EXCEPT !.view = TRUE, !.dirty = FALSE]
                                  : e \in {get_env_under_cursor(c, c.cursor)}})
                        : c \in {draw_list(get_env_under_cursor(a, a.cursor),
                                           rows, items, ok)}})
              : a \in {[l EXCEPT !.cursor = l.new_cursor, !.differ = FALSE]}})

\* set_focus (754-790)
set_focus(l, new_value) ==
    CASE new_value = "None" -> [l EXCEPT !.view = FALSE, !.dirty = TRUE, !.focus = new_value]
      [] new_value = "Entry" ->
            The({IF e.pc # "run" THEN e ELSE [e EXCEPT !.view = TRUE, !.focus = new_value]
                 : e \in {get_env_under_cursor([l EXCEPT !.dirty = TRUE], l.cursor)}})
      [] new_value = "EntryFullscreen" -> [l EXCEPT !.focus = new_value]

\* the changes of focus the keys of process_event make (1256-1350): from,
\* to
FocusKeys ==
    {<<"None", "Entry">>, <<"Entry", "EntryFullscreen">>, <<"EntryFullscreen", "Entry">>,
     <<"Entry", "None">>, <<"EntryFullscreen", "None">>}

\* the ThreadListing as a handler finds it
Listing ==
    [debug |-> tl_debug, filter |-> tl_filter, items |-> tl_items, built |-> tl_built,
     order |-> tl_order, length |-> tl_length, cursor |-> tl_cursor,
     new_cursor |-> tl_new_cursor, differ |-> tl_differ, movement |-> tl_movement,
     focus |-> tl_focus, view |-> tl_view, dirty |-> tl_dirty, redrawn |-> tl_redrawn,
     lookups |-> {}, pc |-> "run"]

\* ... and as the handler leaves it
Leaves(l) ==
    /\ tl_items' = l.items /\ tl_built' = l.built /\ tl_order' = l.order
    /\ tl_length' = l.length /\ tl_cursor' = l.cursor /\ tl_new_cursor' = l.new_cursor
    /\ tl_differ' = l.differ /\ tl_movement' = l.movement /\ tl_focus' = l.focus
    /\ tl_view' = l.view /\ tl_dirty' = l.dirty /\ tl_redrawn' = l.redrawn
    /\ tl_lookups' = l.lookups
    /\ tl_pc' = IF l.pc = "run" THEN "idle" ELSE l.pc
    /\ UNCHANGED <<tl_debug, tl_filter>>
    /\ UNCHANGED tlOthers

\* ThreadListing::new (804-827) for a mailbox, in either build and with or
\* without a listing filter
InitListing ==
    /\ EarlyIdle
    /\ MidIdle
    /\ MbIdle
    /\ SgIdle
    /\ tl_debug \in BOOLEAN
    /\ tl_filter \in BOOLEAN
    /\ tl_items = <<>> /\ tl_built = <<>> /\ tl_order = {} /\ tl_length = 0
    /\ tl_cursor = 0 /\ tl_new_cursor = 0 /\ tl_differ = TRUE
    /\ tl_movement = <<>> /\ tl_focus = "None" /\ tl_view = FALSE /\ tl_dirty = TRUE
    /\ tl_redrawn = FALSE /\ tl_lookups = {} /\ tl_pc = "idle"

\* process_event, UIEvent::MailboxUpdate for this mailbox (1357-1362): the
\* mailbox holds `items` now
MailboxUpdate ==
    /\ tl_pc = "idle"
    /\ \E load \in Loads :
          Leaves([refresh_mailbox(Listing, load.items, load.ok) EXCEPT !.dirty = TRUE])

\* set_coordinates (415-422) for another mailbox
SetCoordinates ==
    /\ tl_pc = "idle"
    /\ Leaves([Listing EXCEPT !.new_cursor = 0, !.differ = TRUE, !.focus = "None",
                               !.view = FALSE, !.order = {}, !.redrawn = FALSE])

\* set_movement (749-752)
SetMovement ==
    /\ tl_pc = "idle"
    /\ \E mvm \in Movements :
          Leaves([Listing EXCEPT !.movement = <<mvm>>, !.dirty = TRUE])

\* process_event, a key that changes the focus (1256-1350)
KeyFocus ==
    /\ tl_pc = "idle"
    /\ \E k \in FocusKeys :
          /\ k[1] = tl_focus
          /\ Leaves(set_focus(Listing, k[2]))

\* Component::draw (1117-1251) of a dirty listing; the mailbox shown for
\* the first time holds `items`
Draw ==
    /\ tl_pc = "idle"
    /\ tl_dirty
    /\ \E rows \in 1 .. MaxPageRows :
          \E load \in (IF tl_differ THEN Loads ELSE {[ok |-> TRUE, items |-> tl_items]}) :
              Leaves(draw(Listing, rows, load.items, load.ok))

NextListing ==
    \/ MailboxUpdate
    \/ SetCoordinates
    \/ SetMovement
    \/ KeyFocus
    \/ Draw

SpecListing == InitListing /\ [][NextListing]_vars

---------------------------------------------------------------------------
(* Claims about SpecListing.                                               *)

\* C39: after redraw_threads_list, with or without a listing filter, the
\* order map sends the envelope hashes of the rows built one-to-one onto
\* the row indexes 0 .. length - 1: each row's envelope to its index, no
\* other envelope to anything, and length is the number of rows built.
C39_OrderNumbersTheRows ==
    tl_redrawn =>
        /\ tl_length = Len(tl_built)
        /\ tl_order = {[hash |-> tl_built[i], row |-> i - 1] : i \in 1 .. Len(tl_built)}

\* C40: whenever length > 0, the row get_env_under_cursor is asked for, to
\* open an entry or to highlight a line, is below length.
C40_CursorBelowLength ==
    \A k \in tl_lookups : k.length > 0 => k.cursor < k.length
============================================================================
